---- MODULE Spec2Model ----
(***************************************************************************)
(* A model of the compressed sparse matrix kernel of sprs:                 *)
(*   src/src/sparse/csmat.rs     CsMat, its constructors, views, iteration *)
(*                               and the storage converter                 *)
(*   src/src/sparse/binop.rs     elementwise binary operations             *)
(*   src/src/sparse/symmetric.rs the symmetry predicate                    *)
(*                                                                         *)
(* Rust slices are 0-based; TLA+ sequences are 1-based.  A slice s is the  *)
(* sequence s with s[i] of the code written At(s, i).  A panic (a failed   *)
(* assert!, an unwrap() of an Err, an out-of-range index) is the value     *)
(* Panic.                                                                  *)
(***************************************************************************)
EXTENDS Integers, Sequences, FiniteSets, TLC

VARIABLES input, mat, ret, hist, iter

vars == <<input, mat, ret, hist, iter>>

\* ------------------------------------------------------------------ bounds

\* Largest row and column count of the matrices the operations are applied to.
MaxDim == 2

\* Largest number of stored entries of those matrices.
MaxNnz == 4

\* Largest number of conversions applied to one matrix in a row.
MaxOps == 2

\* Largest row and column count (and vector length) of the operands of the
\* elementwise binary operations.
MaxBinDim == 2

\* Largest lhs.nb_nonzero() + rhs.nb_nonzero() of those operands.
MaxBinNnz == 3

\* Largest declared row and column count handed to the checked constructors.
MaxRawDim == 2

\* Largest length of the index and value arrays handed to the constructors.
MaxRawLen == 2

\* Sparse vectors: dimension up to MaxVecDim.
MaxVecDim == 4

\* The operators + and -: dimensions up to MaxOpDim, at most MaxOpNnz stored
\* entries in the two operands together.
MaxOpDim == 2

MaxOpNnz == 2

\* Sparse-dense operations: dimensions up to MaxDenseDim, and at most
\* MaxDenseNnz non-zero entries in the two operands together.
MaxDenseDim == 2

MaxDenseNnz == 2

\* Largest inner dimension of a matrix built by appending, and largest number
\* of appends.
MaxBuildDim == 2

MaxAppends == 2

\* The scalar values of the model (N of the code, with N::zero() = 0).
Vals == {-1, 1}

\* ------------------------------------------------------------------ basics

Panic == [tag |-> "Panic"]

None == [tag |-> "None"]

CSR == "CSR"

CSC == "CSC"

Storages == {CSR, CSC}

At(s, i) == s[i + 1]

\* s[a..b] of the code, for 0 <= a <= b <= len(s)
Slice(s, a, b) == SubSeq(s, a + 1, b)

SliceOk(s, a, b) == a <= b /\ b <= Len(s)

Max(S) == CHOOSE x \in S : \A y \in S : y <= x

Range(s) == {s[k] : k \in 1..Len(s)}

\* All sequences over S of length at most n.
SeqsUpTo(S, n) == UNION {[1..k -> S] : k \in 0..n}

other_storage(s) == IF s = CSR THEN CSC ELSE CSR

CsMat(storage, nrows, ncols, nnz, indptr, indices, data) ==
    [storage |-> storage, nrows |-> nrows, ncols |-> ncols, nnz |-> nnz,
     indptr |-> indptr, indices |-> indices, data |-> data]

outer_dims(m) == IF m.storage = CSR THEN m.nrows ELSE m.ncols

inner_dims(m) == IF m.storage = CSC THEN m.nrows ELSE m.ncols

\* ------------------------------------------------------------------ CsVec

CsVec(dim, indices, data) == [dim |-> dim, indices |-> indices, data |-> data]

\* CsVec::check_structure: the indices of a vector are strictly increasing
\* and below its dimension.
check_structure(v) ==
    IF \E k \in 1..(Len(v.indices) - 1) : v.indices[k] >= v.indices[k + 1]
    THEN "NonSortedIndices"
    ELSE IF \E k \in 1..Len(v.indices) : v.indices[k] >= v.dim
         THEN "OutOfBoundsIndex"
         ELSE "Ok"

\* ------------------------------------------------------------------ outer iteration

\* OuterIterator::next on window number k (0-based) of indptr.windows(2):
\* the pair (outer_ind, vec), or Panic when a slice is out of range.
OuterItem(m, k) ==
    LET inner_start == At(m.indptr, k)
        inner_end == At(m.indptr, k + 1)
    IN  IF SliceOk(m.indices, inner_start, inner_end)
           /\ SliceOk(m.data, inner_start, inner_end)
        THEN [tag |-> "Some", outer_ind |-> k,
              vec |-> CsVec(inner_dims(m),
                            Slice(m.indices, inner_start, inner_end),
                            Slice(m.data, inner_start, inner_end))]
        ELSE Panic

\* The number of windows of indptr.windows(2).
NbWindows(m) == IF Len(m.indptr) >= 2 THEN Len(m.indptr) - 1 ELSE 0

\* ------------------------------------------------------------------ validation

\* usize is modelled with a word of three bits: its values are
\* 0..(UsizeModulus - 1) and its arithmetic wraps modulo UsizeModulus.
UsizeModulus == 8

RECURSIVE CheckSlices(_, _)
\* for (_, vec) in self.outer_iterator() { try!(vec.check_structure()); }
\* "Panic" stands for a panic while the slices are walked.
CheckSlices(m, k) ==
    IF k >= NbWindows(m) THEN "Ok"
    ELSE LET it == OuterItem(m, k)
         IN  IF it = Panic THEN "Panic"
             ELSE LET r == check_structure(it.vec)
                  IN  IF r # "Ok" THEN r ELSE CheckSlices(m, k + 1)

\* CsMat::check_compressed_structure.  overflow_checks tells how the build
\* treats the overflow of `outer + 1`: a panic (debug builds) or a wrapped
\* result (release builds).  "Panic" after the test of nnz is the
\* unreachable!() of the code.  The comparison of max_indptr with
\* usize::max_value() / 2 is left out: it follows max_indptr <= nnz, and nnz
\* is the length of an array.
check_compressed_structure_build(m, overflow_checks) ==
    LET outer == outer_dims(m)
        nnz == Len(m.indices)
    IN  IF outer + 1 >= UsizeModulus /\ overflow_checks THEN "Panic"
        ELSE IF Len(m.indptr) # (outer + 1) % UsizeModulus THEN "BadIndptrLength"
        ELSE IF Len(m.indices) # Len(m.data) THEN "DataIndicesMismatch"
        ELSE IF nnz # m.nnz THEN "BadNnzCount"
        ELSE IF Len(m.indptr) = 0 THEN "Panic"
        ELSE IF Max(Range(m.indptr)) > nnz THEN "OutOfBoundsIndptr"
        ELSE IF \E k \in 1..(Len(m.indptr) - 1) : m.indptr[k] > m.indptr[k + 1]
             THEN "UnsortedIndptr"
        ELSE CheckSlices(m, 0)

\* check_compressed_structure of a matrix with fewer than usize::MAX outer
\* slices, on which the two builds agree: every matrix but the raw inputs of
\* SpecNew.
check_compressed_structure(m) == check_compressed_structure_build(m, TRUE)

Ok(v) == [tag |-> "Ok", val |-> v]

Err(e) == [tag |-> "Err", err |-> e]

\* m.check_compressed_structure().and(Ok(m))
CheckedMat(m, overflow_checks) ==
    LET r == check_compressed_structure_build(m, overflow_checks)
    IN  IF r = "Panic" THEN Panic
        ELSE IF r = "Ok" THEN Ok(m) ELSE Err(r)

\* CsMat::new_owned in a build with or without overflow checks.
new_owned_build(storage, nrows, ncols, indptr, indices, data, overflow_checks) ==
    CheckedMat(CsMat(storage, nrows, ncols, Len(data), indptr, indices, data),
               overflow_checks)

\* CsMat::new_borrowed in a build with or without overflow checks.
new_borrowed_build(storage, nrows, ncols, indptr, indices, data, overflow_checks) ==
    CheckedMat(CsMat(storage, nrows, ncols, Len(data), indptr, indices, data),
               overflow_checks)

\* CsMat::new_owned on arrays of fewer than usize::MAX outer slices.
new_owned(storage, nrows, ncols, indptr, indices, data) ==
    new_owned_build(storage, nrows, ncols, indptr, indices, data, TRUE)

\* CsMat::new_borrowed on arrays of fewer than usize::MAX outer slices.
new_borrowed(storage, nrows, ncols, indptr, indices, data) ==
    new_borrowed_build(storage, nrows, ncols, indptr, indices, data, TRUE)

\* ------------------------------------------------------------------ the data model

\* The invariants of the data model, stated on the arrays.
IndptrLenOk(m) == Len(m.indptr) = outer_dims(m) + 1

IndptrStartsAtZero(m) == Len(m.indptr) >= 1 /\ m.indptr[1] = 0

IndptrSorted(m) == \A k \in 1..(Len(m.indptr) - 1) : m.indptr[k] <= m.indptr[k + 1]

NnzOk(m) ==
    /\ Len(m.indptr) >= 1
    /\ m.indptr[Len(m.indptr)] = m.nnz
    /\ m.nnz = Len(m.indices)
    /\ m.nnz = Len(m.data)

SlicesSorted(m) ==
    \A k \in 1..(Len(m.indptr) - 1) :
        \A p \in (m.indptr[k] + 1)..(m.indptr[k + 1] - 1) :
            p + 1 <= Len(m.indices) => m.indices[p] < m.indices[p + 1]

IndicesInRange(m) == \A p \in 1..Len(m.indices) : m.indices[p] < inner_dims(m)

StructureOk(m) ==
    /\ IndptrLenOk(m)
    /\ IndptrStartsAtZero(m)
    /\ IndptrSorted(m)
    /\ NnzOk(m)
    /\ SlicesSorted(m)
    /\ IndicesInRange(m)

\* ------------------------------------------------------------------ valid matrices

Min(S) == CHOOSE x \in S : \A y \in S : x <= y

RECURSIVE SortedSeq(_)
\* The elements of a finite set of numbers, in increasing order.
SortedSeq(S) == IF S = {} THEN <<>> ELSE <<Min(S)>> \o SortedSeq(S \ {Min(S)})

\* The compressed form of the matrix that stores f[key] at (outer, inner),
\* key = outer * inner_dims + inner: A(i, indices[indptr[i]..indptr[i+1]]) =
\* data[indptr[i]..indptr[i+1]] for CSR, and the same with rows and columns
\* exchanged for CSC.
MatOf(storage, nrows, ncols, f) ==
    LET outer == IF storage = CSR THEN nrows ELSE ncols
        inner == IF storage = CSR THEN ncols ELSE nrows
        keys == SortedSeq(DOMAIN f)
    IN  CsMat(storage, nrows, ncols, Len(keys),
              [o \in 1..(outer + 1) |->
                  Cardinality({k \in DOMAIN f : k < (o - 1) * inner})],
              [p \in 1..Len(keys) |-> keys[p] % inner],
              [p \in 1..Len(keys) |-> f[keys[p]]])

\* The matrices of nrows x ncols with at most n stored entries, values in V.
MatsOfShape(storage, nrows, ncols, n, V) ==
    {MatOf(storage, nrows, ncols, f) :
        f \in UNION {[K -> V] :
                K \in {K \in SUBSET (0..(nrows * ncols - 1)) : Cardinality(K) <= n}}}

\* Every matrix of the data model within the bounds.
ValidMats ==
    UNION {MatsOfShape(s, r, c, MaxNnz, Vals) :
        s \in Storages, r \in 0..MaxDim, c \in 0..MaxDim}

\* ------------------------------------------------------------------ elements

\* The stored entries of window k and after, in iteration order, as
\* <<outer, inner, value>>; Panic when a slice is out of range.
RECURSIVE EntriesFrom(_, _)
EntriesFrom(m, k) ==
    IF k >= NbWindows(m) THEN Ok(<<>>)
    ELSE LET it == OuterItem(m, k)
         IN  IF it = Panic THEN Panic
             ELSE LET rest == EntriesFrom(m, k + 1)
                  IN  IF rest = Panic THEN Panic
                      ELSE Ok([p \in 1..Len(it.vec.indices) |->
                                  <<k, it.vec.indices[p], it.vec.data[p]>>]
                              \o rest.val)

\* for (outer, vec) in mat.outer_iterator() { for (inner, val) in vec.iter() }
IterEntries(m) == EntriesFrom(m, 0)

RECURSIVE BinarySearch(_, _, _, _)
\* The position (0-based) of x in the sorted slice s[lo..hi], or -1.
BinarySearch(s, x, lo, hi) ==
    IF lo >= hi THEN -1
    ELSE LET mid == lo + (hi - lo) \div 2
         IN  IF At(s, mid) = x THEN mid
             ELSE IF At(s, mid) < x THEN BinarySearch(s, x, mid + 1, hi)
             ELSE BinarySearch(s, x, lo, mid)

Some(v) == [tag |-> "Some", val |-> v]

\* CsVec::at: binary search of the index among the sorted indices.
vec_at(v, index) ==
    LET pos == BinarySearch(v.indices, index, 0, Len(v.indices))
    IN  IF pos < 0 THEN None ELSE Some(At(v.data, pos))

\* CsMat::outer_view
outer_view(m, i) ==
    IF i >= outer_dims(m) THEN None
    ELSE IF i + 1 >= Len(m.indptr) THEN Panic
    ELSE LET start == At(m.indptr, i)
             stop == At(m.indptr, i + 1)
         IN  IF SliceOk(m.indices, start, stop) /\ SliceOk(m.data, start, stop)
             THEN Some(CsVec(inner_dims(m), Slice(m.indices, start, stop),
                             Slice(m.data, start, stop)))
             ELSE Panic

\* CsMat::at_outer_inner
at_outer_inner(m, outer_ind, inner_ind) ==
    LET v == outer_view(m, outer_ind)
    IN  IF v.tag = "Some" THEN vec_at(v.val, inner_ind) ELSE v

\* CsMat::at
at(m, i, j) ==
    IF ~(i < m.nrows) \/ ~(j < m.ncols) THEN Panic
    ELSE IF m.storage = CSR THEN at_outer_inner(m, i, j)
    ELSE at_outer_inner(m, j, i)

\* CsMat::to_owned
to_owned(m) == CsMat(m.storage, m.nrows, m.ncols, m.nnz, m.indptr, m.indices, m.data)

\* CsMat::borrowed
borrowed(m) == CsMat(m.storage, m.nrows, m.ncols, m.nnz, m.indptr, m.indices, m.data)

\* ------------------------------------------------------------------ storage converter

Zeros(n) == [k \in 1..n |-> 0]

\* s with s[i] (0-based) replaced by v
Set(s, i, v) == [s EXCEPT ![i + 1] = v]

RECURSIVE Histogram(_, _, _)
\* for every stored entry: indptr[inner_dim] += 1
Histogram(entries, k, indptr) ==
    IF k > Len(entries) THEN Ok(indptr)
    ELSE LET inner_dim == entries[k][2]
         IN  IF inner_dim >= Len(indptr) THEN Panic
             ELSE Histogram(entries, k + 1,
                            Set(indptr, inner_dim, At(indptr, inner_dim) + 1))

RECURSIVE SumBelow(_, _)
\* the sum of s[0..k]
SumBelow(s, k) == IF k = 0 THEN 0 ELSE SumBelow(s, k - 1) + s[k]

\* let tmp = *iptr; *iptr = cumsum; cumsum += tmp;
CumSum(counts) == [k \in 1..Len(counts) |-> SumBelow(counts, k - 1)]

RECURSIVE Scatter_InnerIndex(_, _, _)
\* Scatter storing the entry's inner index where its outer index belongs.
Scatter_InnerIndex(entries, k, out) ==
    IF k > Len(entries) THEN Ok(out)
    ELSE LET inner_dim == entries[k][2]
             val == entries[k][3]
         IN  IF inner_dim >= Len(out.indptr) THEN Panic
             ELSE LET dest == At(out.indptr, inner_dim)
                  IN  IF dest >= Len(out.data) \/ dest >= Len(out.indices) THEN Panic
                      ELSE Scatter_InnerIndex(entries, k + 1,
                              [indptr |-> Set(out.indptr, inner_dim, dest + 1),
                               indices |-> Set(out.indices, dest, inner_dim),
                               data |-> Set(out.data, dest, val)])

RECURSIVE Scatter(_, _, _)
\* for every stored entry: dest = indptr[inner_dim]; data[dest] = val;
\* indices[dest] = outer_dim; indptr[inner_dim] += 1
Scatter(entries, k, out) ==
    IF k > Len(entries) THEN Ok(out)
    ELSE LET outer_dim == entries[k][1]
             inner_dim == entries[k][2]
             val == entries[k][3]
         IN  IF inner_dim >= Len(out.indptr) THEN Panic
             ELSE LET dest == At(out.indptr, inner_dim)
                  IN  IF dest >= Len(out.data) \/ dest >= Len(out.indices) THEN Panic
                      ELSE Scatter(entries, k + 1,
                              [indptr |-> Set(out.indptr, inner_dim, dest + 1),
                               indices |-> Set(out.indices, dest, outer_dim),
                               data |-> Set(out.data, dest, val)])

\* ShiftRight without the final pass: the offsets stay advanced by one slot.
ShiftRight_Skipped(indptr) == indptr

\* let mut last = 0; for iptr in indptr.iter_mut() { swap(iptr, &mut last); }
ShiftRight(indptr) == [k \in 1..Len(indptr) |-> IF k = 1 THEN 0 ELSE indptr[k - 1]]

\* raw::convert_mat_storage: the output arrays after the call, or Panic.
convert_mat_storage(m, indptr, indices, data) ==
    IF Len(indptr) # inner_dims(m) + 1 THEN Panic
    ELSE IF Len(indices) # Len(m.indices) THEN Panic
    ELSE IF Len(data) # Len(m.data) THEN Panic
    ELSE IF \E k \in 1..Len(indptr) : indptr[k] # 0 THEN Panic
    ELSE LET entries == IterEntries(m)
         IN  IF entries = Panic THEN Panic
             ELSE LET hist1 == Histogram(entries.val, 1, indptr)
                  IN  IF hist1 = Panic THEN Panic
                      ELSE LET sums == CumSum(hist1.val)
                           IN  IF Len(sums) > 0 /\ sums[Len(sums)] # m.nnz THEN Panic
                               ELSE LET sc == Scatter(entries.val, 1,
                                                [indptr |-> sums, indices |-> indices,
                                                 data |-> data])
                                    IN  IF sc = Panic THEN Panic
                                        ELSE Ok([indptr |-> ShiftRight(sc.val.indptr),
                                                 indices |-> sc.val.indices,
                                                 data |-> sc.val.data])

\* Result::unwrap
Unwrap(r) == IF r.tag = "Ok" THEN r.val ELSE Panic

\* CsMat::to_other_storage: the converted matrix, or Panic.
to_other_storage(m) ==
    LET out == convert_mat_storage(borrowed(m), Zeros(inner_dims(m) + 1),
                                   Zeros(m.nnz), Zeros(m.nnz))
    IN  IF out = Panic THEN Panic
        ELSE Unwrap(new_owned(other_storage(m.storage), m.nrows, m.ncols,
                              out.val.indptr, out.val.indices, out.val.data))

\* CsMat::to_csc
to_csc(m) == IF m.storage = CSR THEN to_other_storage(m) ELSE to_owned(m)

\* CsMat::to_csr
to_csr(m) == IF m.storage = CSR THEN to_owned(m) ELSE to_other_storage(m)

\* ------------------------------------------------------------------ symmetry

RECURSIVE SymmetricFrom_AnyValue(_, _, _)
\* SymmetricFrom accepting any value at the transposed position.
SymmetricFrom_AnyValue(m, entries, k) ==
    IF k > Len(entries) THEN TRUE
    ELSE LET t == at_outer_inner(m, entries[k][2], entries[k][1])
         IN  IF t.tag # "Some" THEN FALSE
             ELSE SymmetricFrom_AnyValue(m, entries, k + 1)

RECURSIVE SymmetricFrom_PatternOnly(_, _, _)
\* SymmetricFrom without the comparison of the two values.
SymmetricFrom_PatternOnly(m, entries, k) ==
    IF k > Len(entries) THEN TRUE
    ELSE IF at_outer_inner(m, entries[k][2], entries[k][1]).tag # "Some" THEN FALSE
    ELSE SymmetricFrom_PatternOnly(m, entries, k + 1)

RECURSIVE SymmetricFrom(_, _, _)
\* The loop of is_symmetric from entry k on: false at the first entry whose
\* transposed position is absent or holds another value.
SymmetricFrom(m, entries, k) ==
    IF k > Len(entries) THEN TRUE
    ELSE LET outer_ind == entries[k][1]
             inner_ind == entries[k][2]
             value == entries[k][3]
             t == at_outer_inner(m, inner_ind, outer_ind)
         IN  IF t.tag # "Some" THEN FALSE
             ELSE IF t.val # value THEN FALSE
             ELSE SymmetricFrom(m, entries, k + 1)

\* symmetric::is_symmetric
is_symmetric(m) ==
    IF m.nrows # m.ncols THEN FALSE
    ELSE SymmetricFrom(m, IterEntries(m).val, 1)

\* ------------------------------------------------------------------ SpecNew
\* The checked constructors applied to arbitrary arrays.

\* The declared dimensions: the small ones and usize::MAX.
RawDims == 0..MaxRawDim \cup {UsizeModulus - 1}

RawInputs ==
    [storage : Storages,
     nrows : RawDims,
     ncols : RawDims,
     indptr : SeqsUpTo(0..(MaxRawLen + 1), MaxRawDim + 1),
     indices : SeqsUpTo(0..MaxRawDim, MaxRawLen),
     data : SeqsUpTo({1}, MaxRawLen)]

InitNew ==
    /\ input \in RawInputs
    /\ mat = None
    /\ ret = None
    /\ hist = <<>>
    /\ iter = None

NewOwned ==
    /\ hist = <<>>
    /\ input \in RawInputs
    /\ \E overflow_checks \in BOOLEAN :
          ret' = new_owned_build(input.storage, input.nrows, input.ncols,
                                 input.indptr, input.indices, input.data,
                                 overflow_checks)
    /\ hist' = <<"new_owned">>
    /\ UNCHANGED <<input, mat, iter>>

NewBorrowed ==
    /\ hist = <<>>
    /\ input \in RawInputs
    /\ \E overflow_checks \in BOOLEAN :
          ret' = new_borrowed_build(input.storage, input.nrows, input.ncols,
                                    input.indptr, input.indices, input.data,
                                    overflow_checks)
    /\ hist' = <<"new_borrowed">>
    /\ UNCHANGED <<input, mat, iter>>

Constructed == hist # <<>> /\ hist[1] \in {"new_owned", "new_borrowed"}

\* to_other_storage of the matrix a checked constructor has just returned.
ConstructedToOtherStorage ==
    /\ Constructed /\ Len(hist) = 1
    /\ ret.tag = "Ok"
    /\ mat' = to_other_storage(ret.val)
    /\ hist' = Append(hist, "to_other_storage")
    /\ UNCHANGED <<input, ret, iter>>

NextNew == NewOwned \/ NewBorrowed \/ ConstructedToOtherStorage

SpecNew == InitNew /\ [][NextNew]_vars

\* C1: every matrix the checked constructors return as Ok satisfies every
\* invariant of the data model: indptr has outer_dims()+1 entries, starts at
\* 0, is non-decreasing and ends at nnz = len(indices) = len(data); inside
\* every outer slice the inner indices are strictly increasing; every inner
\* index is below inner_dims().
C1_OkIsValid ==
    (Constructed /\ ret.tag = "Ok") => StructureOk(ret.val)

\* ------------------------------------------------------------------ views and blocks

\* CsMat::middle_outer_views.  overflow_checks tells how the build treats an
\* overflowing usize addition or subtraction: a panic (debug builds) or a
\* wrap-around (release builds).
middle_outer_views(m, i, count, overflow_checks) ==
    IF count = 0 THEN Err("EmptyBlock")
    ELSE IF i + count >= UsizeModulus /\ overflow_checks THEN Panic
    ELSE LET iend == (i + count) % UsizeModulus
         IN  IF i >= outer_dims(m) \/ iend > outer_dims(m)
             THEN Err("OutOfBoundsIndex")
             ELSE IF iend >= Len(m.indptr) \/ i >= Len(m.indptr) THEN Panic
             ELSE IF At(m.indptr, iend) < At(m.indptr, i) /\ overflow_checks
             THEN Panic
             ELSE IF i > iend + 1 THEN Panic
             ELSE Ok(CsMat(m.storage, count, m.ncols,
                           (At(m.indptr, iend) - At(m.indptr, i) + UsizeModulus)
                               % UsizeModulus,
                           Slice(m.indptr, i, iend + 1),
                           m.indices, m.data))

\* CsMat::outer_block_iter
outer_block_iter(m, block_size) ==
    [tag |-> "ChunkOuterBlocks",
     mat |-> CsMat(m.storage, m.nrows, m.ncols, m.nnz, m.indptr, m.indices, m.data),
     dims_in_bloc |-> block_size,
     bloc_count |-> 0]

\* ChunkOuterBlocks::next without the test of dims_in_bloc against zero.
ChunkNext_NoZeroTest(it, overflow_checks) ==
    LET cur_dim == it.dims_in_bloc * it.bloc_count
        end_dim == it.dims_in_bloc + cur_dim
        last == end_dim > outer_dims(it.mat)
        count == IF last THEN outer_dims(it.mat) - cur_dim ELSE it.dims_in_bloc
        it1 == IF last THEN [it EXCEPT !.dims_in_bloc = 0] ELSE it
        view == IF count < 0 THEN Panic
                ELSE middle_outer_views(it.mat, cur_dim, count, overflow_checks)
    IN  IF view.tag # "Ok" THEN [it |-> it1, out |-> Panic]
        ELSE [it |-> [it1 EXCEPT !.bloc_count = @ + 1], out |-> Some(view.val)]

\* ChunkOuterBlocks::next: the iterator after the call and the value returned.
ChunkNext(it, overflow_checks) ==
    LET cur_dim == it.dims_in_bloc * it.bloc_count
        end_dim == it.dims_in_bloc + cur_dim
    IN  IF it.dims_in_bloc = 0 THEN [it |-> it, out |-> None]
        ELSE LET last == end_dim > outer_dims(it.mat)
                 count == IF last THEN outer_dims(it.mat) - cur_dim
                          ELSE it.dims_in_bloc
                 it1 == IF last THEN [it EXCEPT !.dims_in_bloc = 0] ELSE it
                 view == IF count < 0 THEN Panic
                         ELSE middle_outer_views(it.mat, cur_dim, count, overflow_checks)
             IN  IF view.tag # "Ok" THEN [it |-> it1, out |-> Panic]
                 ELSE [it |-> [it1 EXCEPT !.bloc_count = @ + 1],
                       out |-> Some(view.val)]

\* ------------------------------------------------------------------ Spec
\* One valid matrix: a chain of storage conversions, or one query, or one
\* block iteration.

Init ==
    /\ input \in ValidMats
    /\ mat = input
    /\ ret = None
    /\ hist = <<>>
    /\ iter = None

CanConvert == Len(hist) < MaxOps /\ ret = None /\ iter = None /\ mat # Panic

CanQuery == hist = <<>> /\ ret = None /\ iter = None

ToOtherStorage ==
    /\ CanConvert
    /\ mat' = to_other_storage(mat)
    /\ hist' = Append(hist, "to_other_storage")
    /\ UNCHANGED <<input, ret, iter>>

ToCsr ==
    /\ CanConvert
    /\ mat' = to_csr(mat)
    /\ hist' = Append(hist, "to_csr")
    /\ UNCHANGED <<input, ret, iter>>

ToCsc ==
    /\ CanConvert
    /\ mat' = to_csc(mat)
    /\ hist' = Append(hist, "to_csc")
    /\ UNCHANGED <<input, ret, iter>>

IsSymmetric ==
    /\ CanQuery
    /\ ret' = [tag |-> "is_symmetric", val |-> is_symmetric(mat)]
    /\ UNCHANGED <<input, mat, hist, iter>>

MiddleOuterViews ==
    /\ CanQuery
    /\ \E i \in 0..(UsizeModulus - 1), count \in 0..(UsizeModulus - 1),
          overflow_checks \in BOOLEAN :
          ret' = [tag |-> "middle_outer_views", i |-> i, count |-> count,
                  val |-> middle_outer_views(mat, i, count, overflow_checks)]
    /\ UNCHANGED <<input, mat, hist, iter>>

OuterBlockIter ==
    /\ CanQuery
    /\ \E block_size \in 0..(MaxDim + 1) :
          iter' = [it |-> outer_block_iter(mat, block_size),
                   block_size |-> block_size, out |-> <<>>]
    /\ UNCHANGED <<input, mat, ret, hist>>

BlockNext ==
    /\ iter # None
    /\ Len(iter.out) < MaxDim + 2
    /\ \A k \in 1..Len(iter.out) : iter.out[k] # Panic
    /\ \E overflow_checks \in BOOLEAN :
          LET r == ChunkNext(iter.it, overflow_checks)
          IN  iter' = [iter EXCEPT !.it = r.it, !.out = Append(@, r.out)]
    /\ UNCHANGED <<input, mat, ret, hist>>

\* ------------------------------------------------------------------ merge iterator

\* The (index, value) pairs of CsVec::iter.
vec_iter(v) == [p \in 1..Len(v.indices) |-> <<v.indices[p], v.data[p]>>]

RECURSIVE MergeFrom_NeverBoth(_, _, _, _)
\* MergeFrom emitting equal heads one after the other instead of together.
MergeFrom_NeverBoth(l, r, i, j) ==
    IF i > Len(l) /\ j > Len(r) THEN <<>>
    ELSE IF j > Len(r) \/ (i <= Len(l) /\ l[i][1] <= r[j][1])
    THEN <<[tag |-> "Left", ind |-> l[i][1], lval |-> l[i][2]]>>
         \o MergeFrom_NeverBoth(l, r, i + 1, j)
    ELSE <<[tag |-> "Right", ind |-> r[j][1], rval |-> r[j][2]]>>
         \o MergeFrom_NeverBoth(l, r, i, j + 1)

RECURSIVE MergeFrom(_, _, _, _)
\* nnz_or_zip: two cursors over pairs sorted by index; the smaller head is
\* emitted alone, tagged with its side, equal heads are emitted together.
MergeFrom(l, r, i, j) ==
    IF i > Len(l) /\ j > Len(r) THEN <<>>
    ELSE IF j > Len(r) \/ (i <= Len(l) /\ l[i][1] < r[j][1])
    THEN <<[tag |-> "Left", ind |-> l[i][1], lval |-> l[i][2]]>>
         \o MergeFrom(l, r, i + 1, j)
    ELSE IF i > Len(l) \/ r[j][1] < l[i][1]
    THEN <<[tag |-> "Right", ind |-> r[j][1], rval |-> r[j][2]]>>
         \o MergeFrom(l, r, i, j + 1)
    ELSE <<[tag |-> "Both", ind |-> l[i][1], lval |-> l[i][2], rval |-> r[j][2]]>>
         \o MergeFrom(l, r, i + 1, j + 1)

nnz_or_zip(l, r) == MergeFrom(l, r, 1, 1)

\* ------------------------------------------------------------------ binary operations

\* The closures of add_mat_same_storage, sub_mat_same_storage and
\* mul_mat_same_storage.
Binops == {"add", "sub", "mul"}

Apply(binop, x, y) ==
    CASE binop = "add" -> x + y
      [] binop = "sub" -> x - y
      [] binop = "mul" -> x * y

\* BinopOf with the operands of a right-only element exchanged.
BinopOf_RightSwapped(binop, elem) ==
    CASE elem.tag = "Left" -> Apply(binop, elem.lval, 0)
      [] elem.tag = "Right" -> Apply(binop, elem.rval, 0)
      [] elem.tag = "Both" -> Apply(binop, elem.lval, elem.rval)

\* match elem { Left((ind, val)) => binop(val, N::zero()), Right((ind, val))
\* => binop(N::zero(), val), Both((ind, lval, rval)) => binop(lval, rval) }
BinopOf(binop, elem) ==
    CASE elem.tag = "Left" -> Apply(binop, elem.lval, 0)
      [] elem.tag = "Right" -> Apply(binop, 0, elem.rval)
      [] elem.tag = "Both" -> Apply(binop, elem.lval, elem.rval)

RECURSIVE BinopSlice_NoZeroTest(_, _, _, _)
\* BinopSlice writing every value, zero or not.
BinopSlice_NoZeroTest(binop, elems, k, out) ==
    IF k > Len(elems) THEN Ok(out)
    ELSE IF out.nnz >= Len(out.indices) \/ out.nnz >= Len(out.data) THEN Panic
    ELSE BinopSlice_NoZeroTest(binop, elems, k + 1,
             [out EXCEPT !.indices = Set(@, out.nnz, elems[k].ind),
                         !.data = Set(@, out.nnz, BinopOf(binop, elems[k])),
                         !.nnz = @ + 1])

RECURSIVE BinopSlice(_, _, _, _)
\* The inner loop of csmat_binop_same_storage_raw over the merged elements
\* of one outer slice: a value is written only if it is not zero.
BinopSlice(binop, elems, k, out) ==
    IF k > Len(elems) THEN Ok(out)
    ELSE LET binop_val == BinopOf(binop, elems[k])
         IN  IF binop_val # 0
             THEN IF out.nnz >= Len(out.indices) \/ out.nnz >= Len(out.data)
                  THEN Panic
                  ELSE BinopSlice(binop, elems, k + 1,
                          [out EXCEPT !.indices = Set(@, out.nnz, elems[k].ind),
                                      !.data = Set(@, out.nnz, binop_val),
                                      !.nnz = @ + 1])
             ELSE BinopSlice(binop, elems, k + 1, out)

RECURSIVE BinopOuter_IndptrNotWritten(_, _, _, _, _)
\* BinopOuter without the write of out_indptr[dim+1].
BinopOuter_IndptrNotWritten(lhs, rhs, binop, dim, out) ==
    IF dim >= NbWindows(lhs) \/ dim >= NbWindows(rhs) THEN Ok(out)
    ELSE LET l == OuterItem(lhs, dim)
             r == OuterItem(rhs, dim)
         IN  IF l = Panic \/ r = Panic THEN Panic
             ELSE LET o == BinopSlice(binop,
                               nnz_or_zip(vec_iter(l.vec), vec_iter(r.vec)), 1, out)
                  IN  IF o = Panic THEN Panic
                      ELSE BinopOuter_IndptrNotWritten(lhs, rhs, binop, dim + 1, o.val)

RECURSIVE BinopOuter(_, _, _, _, _)
\* The outer loop of csmat_binop_same_storage_raw over
\* lhs.outer_iterator().zip(rhs.outer_iterator()).
BinopOuter(lhs, rhs, binop, dim, out) ==
    IF dim >= NbWindows(lhs) \/ dim >= NbWindows(rhs) THEN Ok(out)
    ELSE LET l == OuterItem(lhs, dim)
             r == OuterItem(rhs, dim)
         IN  IF l = Panic \/ r = Panic THEN Panic
             ELSE LET o == BinopSlice(binop,
                               nnz_or_zip(vec_iter(l.vec), vec_iter(r.vec)), 1, out)
                  IN  IF o = Panic THEN Panic
                      ELSE IF dim + 1 >= Len(o.val.indptr) THEN Panic
                      ELSE BinopOuter(lhs, rhs, binop, dim + 1,
                              [o.val EXCEPT !.indptr = Set(@, dim + 1, o.val.nnz)])

\* csmat_binop_same_storage_raw: the nnz count returned and the output
\* arrays after the call, or Panic.
csmat_binop_same_storage_raw(lhs, rhs, binop, out_indptr, out_indices, out_data) ==
    IF lhs.ncols # rhs.ncols \/ lhs.nrows # rhs.nrows THEN Panic
    ELSE IF lhs.storage # rhs.storage THEN Panic
    ELSE IF Len(out_indptr) # outer_dims(rhs) + 1 THEN Panic
    ELSE IF Len(out_data) < lhs.nnz + rhs.nnz THEN Panic
    ELSE IF Len(out_indices) < lhs.nnz + rhs.nnz THEN Panic
    ELSE BinopOuter(lhs, rhs, binop, 0,
                    [nnz |-> 0, indptr |-> Set(out_indptr, 0, 0),
                     indices |-> out_indices, data |-> out_data])

\* csmat_binop_same_storage_alloc with the storage test made first.
csmat_binop_same_storage_alloc_StorageFirst(lhs, rhs, binop) ==
    IF lhs.storage # rhs.storage THEN Err("IncompatibleStorages")
    ELSE IF lhs.nrows # rhs.nrows \/ lhs.ncols # rhs.ncols
    THEN Err("IncompatibleDimensions")
    ELSE LET max_nnz == lhs.nnz + rhs.nnz
             raw == csmat_binop_same_storage_raw(lhs, rhs, binop,
                        Zeros(outer_dims(lhs) + 1), Zeros(max_nnz), Zeros(max_nnz))
         IN  IF raw = Panic THEN Panic
             ELSE Ok(Unwrap(new_owned(lhs.storage, lhs.nrows, lhs.ncols,
                                      raw.val.indptr,
                                      Slice(raw.val.indices, 0, raw.val.nnz),
                                      Slice(raw.val.data, 0, raw.val.nnz))))

\* csmat_binop_same_storage_alloc: Err, Ok of the new matrix, or Panic.
csmat_binop_same_storage_alloc(lhs, rhs, binop) ==
    LET nrows == lhs.nrows
        ncols == lhs.ncols
        storage_type == lhs.storage
    IN  IF nrows # rhs.nrows \/ ncols # rhs.ncols THEN Err("IncompatibleDimensions")
        ELSE IF storage_type # rhs.storage THEN Err("IncompatibleStorages")
        ELSE LET max_nnz == lhs.nnz + rhs.nnz
                 raw == csmat_binop_same_storage_raw(lhs, rhs, binop,
                            Zeros(outer_dims(lhs) + 1), Zeros(max_nnz), Zeros(max_nnz))
             IN  IF raw = Panic THEN Panic
                 ELSE LET m == Unwrap(new_owned(storage_type, nrows, ncols,
                                        raw.val.indptr,
                                        Slice(raw.val.indices, 0, raw.val.nnz),
                                        Slice(raw.val.data, 0, raw.val.nnz)))
                      IN  IF m = Panic THEN Panic ELSE Ok(m)

add_mat_same_storage(lhs, rhs) ==
    csmat_binop_same_storage_alloc(borrowed(lhs), borrowed(rhs), "add")

sub_mat_same_storage(lhs, rhs) ==
    csmat_binop_same_storage_alloc(borrowed(lhs), borrowed(rhs), "sub")

mul_mat_same_storage(lhs, rhs) ==
    csmat_binop_same_storage_alloc(borrowed(lhs), borrowed(rhs), "mul")

\* CsVec::append: the index and the value are pushed at the end.
vec_append(v, ind, val) ==
    [v EXCEPT !.indices = Append(@, ind), !.data = Append(@, val)]

RECURSIVE CsvecLoop(_, _, _, _)
\* for elem in lhs.iter().nnz_or_zip(rhs.iter()) { ...; res.append(ind, binop_val) }
CsvecLoop(binop, elems, k, res) ==
    IF k > Len(elems) THEN res
    ELSE CsvecLoop(binop, elems, k + 1,
                   vec_append(res, elems[k].ind, BinopOf(binop, elems[k])))

\* binop::csvec_binop
csvec_binop(lhs, rhs, binop) ==
    IF lhs.dim # rhs.dim THEN Err("IncompatibleDimensions")
    ELSE Ok(CsvecLoop(binop, nnz_or_zip(vec_iter(lhs), vec_iter(rhs)), 1,
                      CsVec(lhs.dim, <<>>, <<>>)))

\* ------------------------------------------------------------------ scaling

\* for (o, i) in out.iter_mut().zip(vals) { *o = *i }: the output holds the
\* values as far as both arrays go, and keeps the rest.
ZipWrite(out, vals) ==
    [k \in 1..Len(out) |-> IF k <= Len(vals) THEN vals[k] ELSE out[k]]

\* scalar_mul_mat_raw writing the values without the multiplication.
scalar_mul_mat_raw_DataCopied(m, val, out_indptr, out_indices, out_data) ==
    IF Len(out_indptr) # outer_dims(m) + 1 THEN Panic
    ELSE IF ~ (Len(out_data) >= m.nnz) THEN Panic
    ELSE IF ~ (Len(out_indices) >= m.nnz) THEN Panic
    ELSE [indptr |-> ZipWrite(out_indptr, m.indptr),
          indices |-> ZipWrite(out_indices, m.indices),
          data |-> ZipWrite(out_data, m.data)]

\* binop::scalar_mul_mat_raw: the three output arrays after the call, or
\* Panic when an assertion fails.
scalar_mul_mat_raw(m, val, out_indptr, out_indices, out_data) ==
    IF Len(out_indptr) # outer_dims(m) + 1 THEN Panic
    ELSE IF ~ (Len(out_data) >= m.nnz) THEN Panic
    ELSE IF ~ (Len(out_indices) >= m.nnz) THEN Panic
    ELSE [indptr |-> ZipWrite(out_indptr, m.indptr),
          indices |-> ZipWrite(out_indices, m.indices),
          data |-> ZipWrite(out_data, [k \in 1..Len(m.data) |-> m.data[k] * val])]

\* binop::scalar_mul_mat
scalar_mul_mat(m, val) ==
    LET raw == scalar_mul_mat_raw(borrowed(m), val, Zeros(outer_dims(m) + 1),
                                  Zeros(m.nnz), Zeros(m.nnz))
    IN  IF raw = Panic THEN Panic
        ELSE Unwrap(new_owned(m.storage, m.nrows, m.ncols,
                              raw.indptr, raw.indices, raw.data))

\* CsMat::scale: every element of data_mut() is multiplied in place.
scale(m, val) == [m EXCEPT !.data = [k \in 1..Len(m.data) |-> m.data[k] * val]]

\* ------------------------------------------------------------------ transposition

\* transpose_mut exchanging the storage only.
transpose_mut_StorageOnly(m) == [m EXCEPT !.storage = other_storage(m.storage)]

\* CsMat::transpose_mut: mem::swap of nrows and ncols, storage flipped.
transpose_mut(m) ==
    [m EXCEPT !.nrows = m.ncols, !.ncols = m.nrows,
              !.storage = other_storage(m.storage)]

\* CsMat::transpose_into
transpose_into(m) == transpose_mut(m)

\* CsMat::transpose_view
transpose_view(m) ==
    CsMat(other_storage(m.storage), m.ncols, m.nrows, m.nnz,
          m.indptr, m.indices, m.data)

\* ------------------------------------------------------------------ appending an outer slice

RECURSIVE AppendFrom(_, _, _)
\* The loop of append_outer from position inner_ind (0-based) of data on.
AppendFrom(m, data, inner_ind) ==
    IF inner_ind >= Len(data) THEN m
    ELSE IF At(data, inner_ind) # 0
    THEN AppendFrom([m EXCEPT !.indices = Append(@, inner_ind),
                              !.data = Append(@, At(data, inner_ind)),
                              !.nnz = @ + 1], data, inner_ind + 1)
    ELSE AppendFrom(m, data, inner_ind + 1)

\* append_outer pushing every element of data, zero or not.
append_outer_KeepZeros(m, data) ==
    LET n == Len(data)
        grown == IF m.storage = CSR THEN [m EXCEPT !.nrows = @ + 1]
                 ELSE [m EXCEPT !.ncols = @ + 1]
    IN  [grown EXCEPT !.indices = @ \o [k \in 1..n |-> k - 1],
                      !.data = @ \o data,
                      !.nnz = @ + n,
                      !.indptr = Append(@, m.nnz + n)]

\* CsMat::append_outer
append_outer(m, data) ==
    LET pushed == AppendFrom(m, data, 0)
        grown == IF m.storage = CSR THEN [pushed EXCEPT !.nrows = @ + 1]
                 ELSE [pushed EXCEPT !.ncols = @ + 1]
    IN  [grown EXCEPT !.indptr = Append(@, grown.nnz)]

\* CsMat::empty
empty(storage, inner_size) ==
    CsMat(storage,
          IF storage = CSR THEN 0 ELSE inner_size,
          IF storage = CSR THEN inner_size ELSE 0,
          0, <<0>>, <<>>, <<>>)

\* CsVec::nnz: the number of stored entries of a vector.
vec_nnz(v) == Len(v.data)

\* append_outer_csvec pushing the old count of stored entries as the new offset.
append_outer_csvec_StaleOffset(m, vec) ==
    IF inner_dims(m) # vec.dim THEN Panic
    ELSE LET n == Min({Len(vec.indices), Len(vec.data)})
             pushed == [m EXCEPT !.indices = @ \o SubSeq(vec.indices, 1, n),
                                 !.data = @ \o SubSeq(vec.data, 1, n)]
             grown == IF m.storage = CSR THEN [pushed EXCEPT !.nrows = @ + 1]
                      ELSE [pushed EXCEPT !.ncols = @ + 1]
         IN  [grown EXCEPT !.indptr = Append(@, m.nnz), !.nnz = @ + vec_nnz(vec)]

\* CsMat::append_outer_csvec: the matrix returned, or Panic when the
\* assertion on the dimensions fails.
append_outer_csvec(m, vec) ==
    IF inner_dims(m) # vec.dim THEN Panic
    ELSE LET n == Min({Len(vec.indices), Len(vec.data)})
             pushed == [m EXCEPT !.indices = @ \o SubSeq(vec.indices, 1, n),
                                 !.data = @ \o SubSeq(vec.data, 1, n)]
             grown == IF m.storage = CSR THEN [pushed EXCEPT !.nrows = @ + 1]
                      ELSE [pushed EXCEPT !.ncols = @ + 1]
             counted == [grown EXCEPT !.nnz = @ + vec_nnz(vec)]
         IN  [counted EXCEPT !.indptr = Append(@, counted.nnz)]

\* ------------------------------------------------------------------ SpecBuild
\* A matrix built from empty(storage, n) by appending outer slices.

\* The valid sparse vectors of dimension dim; every stored value is 5.
BuildVecs(dim) ==
    {CsVec(dim, SortedSeq(K), [p \in 1..Cardinality(K) |-> 5]) :
        K \in SUBSET (0..(dim - 1))}

InitBuild ==
    /\ input \in [kind : {"build"}, storage : Storages, n : 0..MaxBuildDim]
    /\ mat = empty(input.storage, input.n)
    /\ ret = None
    /\ hist = <<>>
    /\ iter = None

CanAppend == input.kind = "build" /\ Len(hist) < MaxAppends /\ mat # Panic

\* append_outer of a dense buffer of length n, or of another length.
BuildAppendOuter ==
    /\ CanAppend
    /\ \E data \in SeqsUpTo({0, 5}, input.n + 1) :
          /\ mat' = append_outer(mat, data)
          /\ hist' = Append(hist, [op |-> "append_outer", arg |-> data])
    /\ UNCHANGED <<input, ret, iter>>

\* append_outer_csvec of a valid sparse vector of dimension n, or n + 1.
BuildAppendOuterCsvec ==
    /\ CanAppend
    /\ \E vec \in BuildVecs(input.n) \cup BuildVecs(input.n + 1) :
          /\ mat' = append_outer_csvec(mat, vec)
          /\ hist' = Append(hist, [op |-> "append_outer_csvec", arg |-> vec])
    /\ UNCHANGED <<input, ret, iter>>

NextBuild == BuildAppendOuter \/ BuildAppendOuterCsvec

SpecBuild == InitBuild /\ [][NextBuild]_vars

\* ------------------------------------------------------------------ Spec, operations on one matrix

\* The scalars a matrix is multiplied by.
ScaleVals == {-1, 0, 2}

ScalarMulMat ==
    /\ CanQuery
    /\ \E val \in ScaleVals :
          ret' = [tag |-> "scalar_mul_mat", scalar |-> val,
                  val |-> scalar_mul_mat(mat, val)]
    /\ UNCHANGED <<input, mat, hist, iter>>

Scale ==
    /\ CanQuery
    /\ \E val \in ScaleVals :
          /\ mat' = scale(mat, val)
          /\ ret' = [tag |-> "scale", scalar |-> val]
    /\ UNCHANGED <<input, hist, iter>>

\* add_mat_same_storage of the matrix and of the product scalar_mul_mat
\* has just returned.
AddScaled ==
    /\ hist = <<>> /\ iter = None
    /\ ret.tag = "scalar_mul_mat" /\ ret.val # Panic
    /\ ret' = [tag |-> "add_scaled", scalar |-> ret.scalar,
               val |-> add_mat_same_storage(mat, ret.val)]
    /\ UNCHANGED <<input, mat, hist, iter>>

\* The matrix is the initial one, or has only been transposed so far.
CanTranspose ==
    /\ hist = <<>> /\ iter = None /\ mat # Panic
    /\ ret = None \/ ret.tag = "transposed"

Transposed == IF ret = None THEN 0 ELSE ret.n

TransposeMut ==
    /\ CanTranspose /\ Transposed < MaxOps
    /\ mat' = transpose_mut(mat)
    /\ ret' = [tag |-> "transposed", op |-> "transpose_mut", n |-> Transposed + 1]
    /\ UNCHANGED <<input, hist, iter>>

TransposeInto ==
    /\ CanTranspose /\ Transposed < MaxOps
    /\ mat' = transpose_into(mat)
    /\ ret' = [tag |-> "transposed", op |-> "transpose_into", n |-> Transposed + 1]
    /\ UNCHANGED <<input, hist, iter>>

TransposeView ==
    /\ CanTranspose
    /\ ret' = [tag |-> "transpose_view", n |-> Transposed,
               val |-> transpose_view(mat)]
    /\ UNCHANGED <<input, mat, hist, iter>>

\* The elements of the dense buffers append_outer is given.
BufVals == {0, 5}

AppendOuter ==
    /\ CanQuery
    /\ \E data \in SeqsUpTo(BufVals, MaxDim + 1) :
          /\ mat' = append_outer(mat, data)
          /\ ret' = [tag |-> "append_outer", data |-> data]
    /\ UNCHANGED <<input, hist, iter>>

\* The outer index of the stored entry at position p (0-based) of the arrays.
OuterOf(m, p) ==
    CHOOSE o \in 0..(outer_dims(m) - 1) :
        At(m.indptr, o) <= p /\ p < At(m.indptr, o + 1)

\* The matrix with the sign of the value stored at position p flipped.
FlipSign(m, p) == [m EXCEPT !.data[p + 1] = 0 - @]

\* is_symmetric of the matrix, initial or scaled, and of the matrix with
\* the sign of one stored value flipped.
IsSymmetricFlipped ==
    /\ hist = <<>> /\ iter = None /\ mat # Panic
    /\ ret = None \/ ret.tag = "scale"
    /\ \E p \in 0..(mat.nnz - 1) :
          ret' = [tag |-> "is_symmetric_flipped", p |-> p,
                  before |-> is_symmetric(mat),
                  val |-> is_symmetric(FlipSign(mat, p))]
    /\ UNCHANGED <<input, mat, hist, iter>>

\* is_symmetric of the initial matrix, of its transpose_view and of the
\* matrix to_other_storage has just made of it.
IsSymmetricConverted ==
    /\ hist = <<"to_other_storage">> /\ ret = None /\ iter = None
    /\ mat # Panic
    /\ ret' = [tag |-> "is_symmetric_converted",
               self |-> is_symmetric(input),
               view |-> is_symmetric(transpose_view(input)),
               other |-> is_symmetric(mat)]
    /\ UNCHANGED <<input, mat, hist, iter>>

Next ==
    \/ ToOtherStorage
    \/ ToCsr
    \/ ToCsc
    \/ IsSymmetric
    \/ MiddleOuterViews
    \/ OuterBlockIter
    \/ BlockNext
    \/ ScalarMulMat
    \/ Scale
    \/ AddScaled
    \/ TransposeMut
    \/ TransposeInto
    \/ TransposeView
    \/ AppendOuter
    \/ IsSymmetricFlipped
    \/ IsSymmetricConverted

Spec == Init /\ [][Next]_vars

\* ------------------------------------------------------------------ the operators + and -

\* Add::add without the conversion of the right operand.
add_NoConversion(self, rhs) == Unwrap(add_mat_same_storage(self, rhs))

\* impl Add<&CsMat> for &CsMat: the matrix returned, or Panic when an unwrap
\* fails.
add(self, rhs) ==
    IF self.storage # borrowed(rhs).storage
    THEN IF to_other_storage(borrowed(rhs)) = Panic THEN Panic
         ELSE Unwrap(add_mat_same_storage(self, to_other_storage(borrowed(rhs))))
    ELSE Unwrap(add_mat_same_storage(self, rhs))

\* impl Sub<&Mat> for &CsMat
sub(self, rhs) ==
    IF self.storage # borrowed(rhs).storage
    THEN IF to_other_storage(borrowed(rhs)) = Panic THEN Panic
         ELSE Unwrap(sub_mat_same_storage(self, to_other_storage(borrowed(rhs))))
    ELSE Unwrap(sub_mat_same_storage(self, rhs))

\* ------------------------------------------------------------------ SpecOperators
\* Two valid matrices of any two shapes and storages, and one operator.

\* The valid matrices with n stored entries.
OperandsExact(n) ==
    UNION {{m \in MatsOfShape(s, r, c, n, Vals) : m.nnz = n} :
        s \in Storages, r \in 0..MaxOpDim, c \in 0..MaxOpDim}

InitOperators ==
    /\ \E n \in 0..MaxOpNnz : \E k \in 0..(MaxOpNnz - n) :
          input \in [kind : {"operands"}, lhs : OperandsExact(n), rhs : OperandsExact(k)]
    /\ mat = None
    /\ ret = None
    /\ hist = <<>>
    /\ iter = None

AddOperator ==
    /\ input.kind = "operands" /\ ret = None
    /\ ret' = [tag |-> "operator", op |-> "add", val |-> add(input.lhs, input.rhs)]
    /\ UNCHANGED <<input, mat, hist, iter>>

SubOperator ==
    /\ input.kind = "operands" /\ ret = None
    /\ ret' = [tag |-> "operator", op |-> "sub", val |-> sub(input.lhs, input.rhs)]
    /\ UNCHANGED <<input, mat, hist, iter>>

NextOperators == AddOperator \/ SubOperator

SpecOperators == InitOperators /\ [][NextOperators]_vars

\* ------------------------------------------------------------------ sparse-dense operations

\* StorageOrder of the dense operand.
Orderings == {"C", "F", "Unordered"}

\* A dense two-dimensional array: its shape, its ordering and its elements,
\* a function of <<row, col>>.
Dense(rows, cols, ordering, elems) ==
    [rows |-> rows, cols |-> cols, ordering |-> ordering, elems |-> elems]

DenseIndices(rows, cols) == (0..(rows - 1)) \X (0..(cols - 1))

\* MatOwned::zeros (ordering C) and MatOwned::zeros_f (ordering F).
dense_zeros(rows, cols, ordering) ==
    Dense(rows, cols, ordering, [q \in DenseIndices(rows, cols) |-> 0])

\* The number of lanes along the outer axis of an ordered dense array, and
\* the length of each lane.
dense_outer_len(d) == IF d.ordering = "C" THEN d.rows ELSE d.cols

dense_inner_len(d) == IF d.ordering = "C" THEN d.cols ELSE d.rows

\* The element at position p of lane o.
LaneAt(d, o, p) == IF d.ordering = "C" THEN d.elems[<<o, p>>] ELSE d.elems[<<p, o>>]

\* rrow.iter().enumerate() on lane o of iter_axis(outer_axis).
dense_lane(d, o) == [p \in 1..dense_inner_len(d) |-> <<p - 1, LaneAt(d, o, p - 1)>>]

\* The closure of add_dense_mat_same_ordering: |x, y| alpha * x + beta * y.
AddDenseBinop(alpha, beta, x, y) == alpha * x + beta * y

\* match lr_elems { Left((_, &val)) => binop(val, N::zero()), Right((_, val))
\*   => binop(N::zero(), val), Both((_, &lval, rval)) => binop(lval, rval) }
DenseBinopOf(alpha, beta, elem) ==
    CASE elem.tag = "Left" -> AddDenseBinop(alpha, beta, elem.lval, 0)
      [] elem.tag = "Right" -> AddDenseBinop(alpha, beta, 0, elem.rval)
      [] elem.tag = "Both" -> AddDenseBinop(alpha, beta, elem.lval, elem.rval)

\* The merge of one lane: the enumerated dense lane is the receiver of
\* nnz_or_zip, the sparse outer slice is its argument.
DenseMerged(lhs, rhs, o) ==
    nnz_or_zip(dense_lane(rhs, o), vec_iter(OuterItem(lhs, o).vec))

\* The number of lanes the zip of the lanes of out, the outer slices of lhs
\* and the lanes of rhs goes through.
DenseLanes(lhs, rhs, out) ==
    Min({dense_outer_len(out), NbWindows(lhs), dense_outer_len(rhs)})

\* The positions of out the loop assigns: in each lane, the merged elements
\* are zipped with the successive positions of the lane of out.
DenseWritten(lhs, rhs, out) ==
    {q \in DenseIndices(out.rows, out.cols) :
        LET o == IF out.ordering = "C" THEN q[1] ELSE q[2]
            p == IF out.ordering = "C" THEN q[2] ELSE q[1]
        IN  o < DenseLanes(lhs, rhs, out) /\ p < Len(DenseMerged(lhs, rhs, o))}

\* The loop of csmat_binop_dense_same_ordering_raw once both tests passed.
DenseLoop(lhs, rhs, alpha, beta, out) ==
    IF \E o \in 0..(DenseLanes(lhs, rhs, out) - 1) : OuterItem(lhs, o) = Panic
    THEN Panic
    ELSE Ok(Dense(out.rows, out.cols, out.ordering,
             [q \in DenseIndices(out.rows, out.cols) |->
                 LET o == IF out.ordering = "C" THEN q[1] ELSE q[2]
                     p == IF out.ordering = "C" THEN q[2] ELSE q[1]
                 IN  IF q \in DenseWritten(lhs, rhs, out)
                     THEN DenseBinopOf(alpha, beta, DenseMerged(lhs, rhs, o)[p + 1])
                     ELSE out.elems[q]]))

\* csmat_binop_dense_same_ordering_raw with the storage test made before the
\* dimension test.
csmat_binop_dense_same_ordering_raw_StorageFirst(lhs, rhs, alpha, beta, out) ==
    IF ~ (\/ lhs.storage = CSR /\ rhs.ordering = "C" /\ out.ordering = "C"
          \/ lhs.storage = CSC /\ rhs.ordering = "F" /\ out.ordering = "F")
    THEN Err("IncompatibleStorages")
    ELSE IF lhs.ncols # rhs.cols \/ lhs.ncols # out.cols
            \/ lhs.nrows # rhs.rows \/ lhs.nrows # out.rows
    THEN Err("IncompatibleDimensions")
    ELSE DenseLoop(lhs, rhs, alpha, beta, out)

\* csmat_binop_dense_same_ordering_raw with the closure of
\* add_dense_mat_same_ordering: the value returned, Ok carrying the contents
\* of out after the call.
csmat_binop_dense_same_ordering_raw(lhs, rhs, alpha, beta, out) ==
    IF lhs.ncols # rhs.cols \/ lhs.ncols # out.cols
       \/ lhs.nrows # rhs.rows \/ lhs.nrows # out.rows
    THEN Err("IncompatibleDimensions")
    ELSE IF ~ (\/ lhs.storage = CSR /\ rhs.ordering = "C" /\ out.ordering = "C"
               \/ lhs.storage = CSC /\ rhs.ordering = "F" /\ out.ordering = "F")
    THEN Err("IncompatibleStorages")
    ELSE DenseLoop(lhs, rhs, alpha, beta, out)

\* dense_out_after with the loop run before the test of the storages.
dense_out_after_LoopFirst(lhs, rhs, alpha, beta, out) ==
    IF lhs.ncols # rhs.cols \/ lhs.ncols # out.cols
       \/ lhs.nrows # rhs.rows \/ lhs.nrows # out.rows
    THEN out
    ELSE LET r == DenseLoop(lhs, rhs, alpha, beta, out)
         IN  IF r = Panic THEN Panic ELSE r.val

\* The contents of the caller's out when csmat_binop_dense_same_ordering_raw
\* returns: both tests return before the loop, the only code that writes.
dense_out_after(lhs, rhs, alpha, beta, out) ==
    IF lhs.ncols # rhs.cols \/ lhs.ncols # out.cols
       \/ lhs.nrows # rhs.rows \/ lhs.nrows # out.rows
    THEN out
    ELSE IF ~ (\/ lhs.storage = CSR /\ rhs.ordering = "C" /\ out.ordering = "C"
               \/ lhs.storage = CSC /\ rhs.ordering = "F" /\ out.ordering = "F")
    THEN out
    ELSE LET r == DenseLoop(lhs, rhs, alpha, beta, out)
         IN  IF r = Panic THEN Panic ELSE r.val

\* binop::add_dense_mat_same_ordering
add_dense_mat_same_ordering(lhs, rhs, alpha, beta) ==
    IF rhs.ordering \notin {"C", "F"} THEN Panic
    ELSE csmat_binop_dense_same_ordering_raw(
             lhs, rhs, alpha, beta, dense_zeros(rhs.rows, rhs.cols, rhs.ordering))

\* ------------------------------------------------------------------ SpecBinop
\* Two valid matrices, or two valid sparse vectors, and one binary operation.

MatsExact(n) ==
    UNION {{MatOf(s, r, c, f) :
              f \in UNION {[K -> Vals] :
                      K \in {K \in SUBSET (0..(r * c - 1)) : Cardinality(K) = n}}} :
        s \in Storages, r \in 0..MaxBinDim, c \in 0..MaxBinDim}

VecsExact(n) ==
    UNION {{CsVec(dim, SortedSeq(DOMAIN f), [p \in 1..n |-> f[SortedSeq(DOMAIN f)[p]]]) :
              f \in UNION {[K -> Vals] :
                      K \in {K \in SUBSET (0..(dim - 1)) : Cardinality(K) = n}}} :
        dim \in 0..MaxVecDim}

\* The operand pairs with lhs.nb_nonzero() = n and rhs.nb_nonzero() = k.
BinopInputs(n, k) ==
    [kind : {"mats"}, lhs : MatsExact(n), rhs : MatsExact(k)]
    \cup [kind : {"vecs"}, lhs : VecsExact(n), rhs : VecsExact(k)]

InitBinop ==
    /\ \E n \in 0..MaxBinNnz : \E k \in 0..(MaxBinNnz - n) : input \in BinopInputs(n, k)
    /\ mat = None
    /\ ret = None
    /\ hist = <<>>
    /\ iter = None

AddMatSameStorage ==
    /\ input.kind = "mats" /\ ret = None
    /\ ret' = [tag |-> "mat_binop", binop |-> "add",
               val |-> add_mat_same_storage(input.lhs, input.rhs)]
    /\ UNCHANGED <<input, mat, hist, iter>>

SubMatSameStorage ==
    /\ input.kind = "mats" /\ ret = None
    /\ ret' = [tag |-> "mat_binop", binop |-> "sub",
               val |-> sub_mat_same_storage(input.lhs, input.rhs)]
    /\ UNCHANGED <<input, mat, hist, iter>>

MulMatSameStorage ==
    /\ input.kind = "mats" /\ ret = None
    /\ ret' = [tag |-> "mat_binop", binop |-> "mul",
               val |-> mul_mat_same_storage(input.lhs, input.rhs)]
    /\ UNCHANGED <<input, mat, hist, iter>>

CsvecBinop ==
    /\ input.kind = "vecs" /\ ret = None
    /\ \E binop \in Binops :
          ret' = [tag |-> "vec_binop", binop |-> binop,
                  val |-> csvec_binop(input.lhs, input.rhs, binop)]
    /\ UNCHANGED <<input, mat, hist, iter>>

\* lhs.iter().nnz_or_zip(rhs.iter()), collected.
NnzOrZip ==
    /\ input.kind = "vecs" /\ ret = None
    /\ ret' = [tag |-> "nnz_or_zip",
               val |-> nnz_or_zip(vec_iter(input.lhs), vec_iter(input.rhs))]
    /\ UNCHANGED <<input, mat, hist, iter>>

\* What the output arrays hold before csmat_binop_same_storage_raw is called.
RawFill == 100

\* csmat_binop_same_storage_raw on preallocated arrays of the lengths
\* csmat_binop_same_storage_alloc gives them.
CsmatBinopSameStorageRaw ==
    /\ input.kind = "mats" /\ ret = None
    /\ \E binop \in Binops :
          LET max_nnz == input.lhs.nnz + input.rhs.nnz
              fill(n) == [k \in 1..n |-> RawFill]
          IN  ret' = [tag |-> "raw_binop", binop |-> binop,
                      val |-> csmat_binop_same_storage_raw(
                                  input.lhs, input.rhs, binop,
                                  fill(outer_dims(input.lhs) + 1),
                                  fill(max_nnz), fill(max_nnz))]
    /\ UNCHANGED <<input, mat, hist, iter>>

NextBinop ==
    \/ CsmatBinopSameStorageRaw
    \/ AddMatSameStorage
    \/ SubMatSameStorage
    \/ MulMatSameStorage
    \/ CsvecBinop
    \/ NnzOrZip

SpecBinop == InitBinop /\ [][NextBinop]_vars

\* ------------------------------------------------------------------ SpecDense
\* One valid sparse matrix and one dense array; each call draws its scalars.

\* The values of the stored sparse entries, the non-zero value of a dense
\* entry, and the scalars alpha and beta.
SparseVals == {1}

DenseVals == {3}

Scalars == {1, 2}

\* The sparse operands with n stored entries.
SparseExact(n) ==
    UNION {{m \in MatsOfShape(s, r, c, n, SparseVals) : m.nnz = n} :
        s \in Storages, r \in 0..MaxDenseDim, c \in 0..MaxDenseDim}

\* The dense operands with k non-zero entries.
DensesExact(k) ==
    UNION {{Dense(r, c, ordering, [q \in DenseIndices(r, c) |-> IF q \in DOMAIN f THEN f[q] ELSE 0]) :
              f \in UNION {[K -> DenseVals] :
                      K \in {K \in SUBSET DenseIndices(r, c) : Cardinality(K) = k}}} :
        r \in 0..MaxDenseDim, c \in 0..MaxDenseDim, ordering \in Orderings}

InitDense ==
    /\ \E n \in 0..MaxDenseNnz : \E k \in 0..(MaxDenseNnz - n) :
          input \in [kind : {"dense"}, lhs : SparseExact(n), rhs : DensesExact(k)]
    /\ mat = None
    /\ ret = None
    /\ hist = <<>>
    /\ iter = None

AddDenseMatSameOrdering ==
    /\ input.kind = "dense" /\ ret = None
    /\ \E alpha \in Scalars, beta \in Scalars :
          ret' = [tag |-> "add_dense", alpha |-> alpha, beta |-> beta,
                  val |-> add_dense_mat_same_ordering(input.lhs, input.rhs,
                                                      alpha, beta)]
    /\ UNCHANGED <<input, mat, hist, iter>>

\* The value every element of a caller-provided output holds before the
\* call, and the scalars of the closure the caller passes.
OutFills == {100}

RawScalars == {<<1, 2>>}

\* csmat_binop_dense_same_ordering_raw on an output the caller provides.
CsmatBinopDenseSameOrderingRaw ==
    /\ input.kind = "dense" /\ ret = None
    /\ \E rows \in 0..MaxDenseDim, cols \in 0..MaxDenseDim,
          ordering \in Orderings, fill \in OutFills, ab \in RawScalars :
          LET out == Dense(rows, cols, ordering,
                           [q \in DenseIndices(rows, cols) |-> fill])
          IN  ret' = [tag |-> "dense_raw", out |-> out,
                      written |-> DenseWritten(input.lhs, input.rhs, out),
                      out_after |-> dense_out_after(input.lhs, input.rhs,
                                                    ab[1], ab[2], out),
                      val |-> csmat_binop_dense_same_ordering_raw(
                                  input.lhs, input.rhs, ab[1], ab[2], out)]
    /\ UNCHANGED <<input, mat, hist, iter>>

NextDense ==
    \/ AddDenseMatSameOrdering
    \/ CsmatBinopDenseSameOrderingRaw

SpecDense == InitDense /\ [][NextDense]_vars

\* ------------------------------------------------------------------ claims on Spec

\* The stored entries of a matrix as <<outer, inner, value>>, read off the
\* arrays.
Stored(m) ==
    UNION {{<<k - 1, m.indices[p], m.data[p]>> :
                p \in {q \in 1..Len(m.indices) :
                          m.indptr[k] < q /\ q <= m.indptr[k + 1]}} :
            k \in 1..(Len(m.indptr) - 1)}

\* The stored entries as <<row, col, value>>.
Elems(m) ==
    {IF m.storage = CSR THEN e ELSE <<e[2], e[1], e[3]>> : e \in Stored(m)}

\* Two matrices with the same element (or none) at every position.
SameElements(x, y) ==
    /\ x.nrows = y.nrows
    /\ x.ncols = y.ncols
    /\ Elems(x) = Elems(y)
    /\ Cardinality(Elems(x)) = x.nnz
    /\ Cardinality(Elems(y)) = y.nnz
    /\ \A e1 \in Elems(x), e2 \in Elems(x) :
          (e1[1] = e2[1] /\ e1[2] = e2[2]) => e1 = e2

SameArrays(x, y) ==
    x.indptr = y.indptr /\ x.indices = y.indices /\ x.data = y.data

\* C2: converting a valid matrix to the other storage and back gives the
\* matrix itself: same storage order, dimensions, indptr, indices and data.
C2_RoundTrip ==
    hist = <<"to_other_storage", "to_other_storage">> => mat = input

C2_Witness ==
    /\ hist = <<"to_other_storage", "to_other_storage">>
    /\ mat = input
    /\ input.nnz >= 3
    /\ to_other_storage(input).indices # input.indices

\* C6: to_other_storage gives the opposite storage order with the same rows,
\* cols and the same element at every position; to_csr / to_csc give a CSR /
\* CSC matrix with the same elements, with arrays identical to the input's
\* when it already has the requested order.
C6_ConversionPreserves ==
    /\ hist = <<"to_other_storage">> =>
          /\ mat # Panic
          /\ mat.storage = other_storage(input.storage)
          /\ SameElements(mat, input)
    /\ hist = <<"to_csr">> =>
          /\ mat # Panic
          /\ mat.storage = CSR
          /\ SameElements(mat, input)
          /\ input.storage = CSR => SameArrays(mat, input)
    /\ hist = <<"to_csc">> =>
          /\ mat # Panic
          /\ mat.storage = CSC
          /\ SameElements(mat, input)
          /\ input.storage = CSC => SameArrays(mat, input)

C6_Witness ==
    /\ hist = <<"to_csc">>
    /\ input.storage = CSR
    /\ input.nnz >= 3
    /\ mat # Panic
    /\ mat.indices # input.indices

\* C7: for a block size k >= 1 and a matrix of n outer slices, the calls of
\* next() return the views of the outer ranges [0,k), [k,2k), ... in order,
\* each of k slices but a shorter last one, ceil(n/k) in all, then None; no
\* call panics.
C7_BlocksCover ==
    (iter # None /\ iter.block_size >= 1) =>
        \A j \in 1..Len(iter.out) :
            LET n == outer_dims(mat)
                start == (j - 1) * iter.block_size
                stop == IF start + iter.block_size < n
                        THEN start + iter.block_size ELSE n
            IN  IF start < n
                THEN /\ iter.out[j].tag = "Some"
                     /\ iter.out[j].val.indptr = Slice(mat.indptr, start, stop + 1)
                ELSE iter.out[j] = None

\* C8: for count >= 1 and i + count <= outer_dims(), middle_outer_views(i,
\* count) of a CSR or CSC matrix is a view of the same storage order with
\* count outer slices and the matrix's inner dimension, whose outer slice k
\* is the matrix's outer slice i + k, over the matrix's own index and value
\* arrays.
C8_MiddleViews ==
    (ret.tag = "middle_outer_views" /\ ret.count >= 1
        /\ ret.i + ret.count <= outer_dims(mat)) =>
        /\ ret.val.tag = "Ok"
        /\ ret.val.val.storage = mat.storage
        /\ outer_dims(ret.val.val) = ret.count
        /\ inner_dims(ret.val.val) = inner_dims(mat)
        /\ \A k \in 0..(ret.count - 1) :
              outer_view(ret.val.val, k) = outer_view(mat, ret.i + k)
        /\ ret.val.val.indices = mat.indices
        /\ ret.val.val.data = mat.data

\* C9: is_symmetric is true exactly when the matrix is square and every
\* stored entry (outer, inner, v) has a stored entry (inner, outer, v); it is
\* false for every non-square matrix.
C9_Symmetric ==
    ret.tag = "is_symmetric" =>
        ret.val = (/\ mat.nrows = mat.ncols
                   /\ \A e \in Stored(mat) : <<e[2], e[1], e[3]>> \in Stored(mat))

C9_Witness ==
    /\ ret.tag = "is_symmetric"
    /\ ret.val
    /\ mat.nnz >= 3
    /\ \E e \in Stored(mat) : e[1] # e[2]

\* ------------------------------------------------------------------ claims on SpecBinop

\* The positions <<outer, inner>> a matrix stores.
Positions(m) == {<<e[1], e[2]>> : e \in Stored(m)}

\* The value of a matrix at <<outer, inner>>, zero when nothing is stored.
ValAt(m, p) ==
    IF p \in Positions(m)
    THEN (CHOOSE e \in Stored(m) : e[1] = p[1] /\ e[2] = p[2])[3]
    ELSE 0

SameShape(x, y) == x.nrows = y.nrows /\ x.ncols = y.ncols

\* C3: for two matrices of the same dimensions and storage order, the
\* sparse-sparse combine with an operator f, f(0,0) = 0, returns the matrix
\* that stores f(A[p], B[p]) at exactly the positions p stored by A or B
\* where that value is not zero (an absent operand counting as zero).
C3_CombineUnion ==
    (ret.tag = "mat_binop" /\ SameShape(input.lhs, input.rhs)
        /\ input.lhs.storage = input.rhs.storage) =>
        /\ ret.val.tag = "Ok"
        /\ ret.val.val.storage = input.lhs.storage
        /\ SameShape(ret.val.val, input.lhs)
        /\ Len(ret.val.val.indices) = ret.val.val.nnz
        /\ Cardinality(Stored(ret.val.val)) = ret.val.val.nnz
        /\ Stored(ret.val.val) =
              {<<p[1], p[2], Apply(ret.binop, ValAt(input.lhs, p), ValAt(input.rhs, p))>> :
                  p \in {q \in Positions(input.lhs) \cup Positions(input.rhs) :
                           Apply(ret.binop, ValAt(input.lhs, q), ValAt(input.rhs, q)) # 0}}

C3_Witness ==
    /\ ret.tag = "mat_binop"
    /\ ret.binop = "sub"
    /\ ret.val.tag = "Ok"
    /\ Positions(input.lhs) \cap Positions(input.rhs) # {}
    /\ Positions(input.rhs) \ Positions(input.lhs) # {}
    /\ ret.val.val.nnz >= 1
    /\ ret.val.val.nnz < Cardinality(Positions(input.lhs) \cup Positions(input.rhs))

\* The value of a sparse vector at index p, zero when nothing is stored.
VecValAt(v, p) ==
    IF \E k \in 1..Len(v.indices) : v.indices[k] = p
    THEN v.data[CHOOSE k \in 1..Len(v.indices) : v.indices[k] = p]
    ELSE 0

\* C5: csvec_binop on two vectors of equal dim stores, in increasing index
\* order, exactly the indices p stored by either operand for which
\* f(lhs[p], rhs[p]) is not zero, with that value; a zero is not stored.
C5_VecMergePrune ==
    (ret.tag = "vec_binop" /\ input.lhs.dim = input.rhs.dim) =>
        /\ ret.val.tag = "Ok"
        /\ LET keep == {p \in Range(input.lhs.indices) \cup Range(input.rhs.indices) :
                          Apply(ret.binop, VecValAt(input.lhs, p),
                                VecValAt(input.rhs, p)) # 0}
           IN  /\ ret.val.val.indices = SortedSeq(keep)
               /\ Len(ret.val.val.data) = Len(ret.val.val.indices)
               /\ \A k \in 1..Len(ret.val.val.data) :
                     ret.val.val.data[k] =
                        Apply(ret.binop, VecValAt(input.lhs, ret.val.val.indices[k]),
                              VecValAt(input.rhs, ret.val.val.indices[k]))

\* C10: the sparse-sparse combine returns Err(IncompatibleDimensions) when
\* the row or column counts differ (whatever the storage orders),
\* Err(IncompatibleStorages) when the dimensions agree and the storage orders
\* differ, and Ok otherwise; csvec_binop returns Err(IncompatibleDimensions)
\* exactly when the dims differ.
C10_BinopErrors ==
    /\ ret.tag = "mat_binop" =>
          IF ~SameShape(input.lhs, input.rhs)
          THEN ret.val = Err("IncompatibleDimensions")
          ELSE IF input.lhs.storage # input.rhs.storage
          THEN ret.val = Err("IncompatibleStorages")
          ELSE ret.val.tag = "Ok"
    /\ ret.tag = "vec_binop" =>
          IF input.lhs.dim # input.rhs.dim
          THEN ret.val = Err("IncompatibleDimensions")
          ELSE ret.val.tag = "Ok"

C10_Witness ==
    /\ ret.tag = "mat_binop"
    /\ input.lhs.nrows # input.rhs.nrows
    /\ input.lhs.storage # input.rhs.storage
    /\ input.lhs.nnz >= 1
    /\ input.rhs.nnz >= 1
    /\ ret.val = Err("IncompatibleDimensions")


\* ------------------------------------------------------------------ claims on SpecDense

\* The element of a sparse matrix at row i and column j, zero when nothing
\* is stored there.
SparseElem(m, i, j) == IF m.storage = CSR THEN ValAt(m, <<i, j>>) ELSE ValAt(m, <<j, i>>)

\* lhs and rhs have the same shape and rhs has the ordering of lhs's storage.
DenseCompatible(lhs, rhs) ==
    /\ lhs.nrows = rhs.rows /\ lhs.ncols = rhs.cols
    /\ \/ lhs.storage = CSR /\ rhs.ordering = "C"
       \/ lhs.storage = CSC /\ rhs.ordering = "F"

\* C4: add_dense_mat_same_ordering(lhs, rhs, alpha, beta), lhs sparse and
\* rhs dense of the same shape and compatible ordering, returns a dense
\* matrix with out[i,j] = alpha * lhs[i,j] + beta * rhs[i,j] at every
\* position, an absent sparse entry counting as zero, for all alpha, beta.
C4_AddDense ==
    (ret.tag = "add_dense" /\ DenseCompatible(input.lhs, input.rhs)) =>
        /\ ret.val.tag = "Ok"
        /\ ret.val.val.rows = input.rhs.rows
        /\ ret.val.val.cols = input.rhs.cols
        /\ \A q \in DenseIndices(input.rhs.rows, input.rhs.cols) :
              ret.val.val.elems[q] =
                  ret.alpha * SparseElem(input.lhs, q[1], q[2])
                  + ret.beta * input.rhs.elems[q]

\* The same statement restricted to alpha = beta, the case the repository's
\* test csr_add_dense_rowmaj exercises.
C4_AddDenseEqualScalars ==
    (ret.tag = "add_dense" /\ ret.alpha = ret.beta) => C4_AddDense


\* The shapes of the sparse operand, the dense operand and the output are
\* all equal.
DenseShapesEqual(lhs, rhs, out) ==
    /\ lhs.nrows = rhs.rows /\ lhs.nrows = out.rows
    /\ lhs.ncols = rhs.cols /\ lhs.ncols = out.cols

\* The two accepted (storage, dense ordering, output ordering) triples.
DenseTripleOk(lhs, rhs, out) ==
    \/ lhs.storage = CSR /\ rhs.ordering = "C" /\ out.ordering = "C"
    \/ lhs.storage = CSC /\ rhs.ordering = "F" /\ out.ordering = "F"

\* C11: csmat_binop_dense_same_ordering_raw returns
\* Err(IncompatibleDimensions) when the three shapes are not all equal,
\* otherwise Err(IncompatibleStorages) for every triple other than
\* (CSR, C, C) and (CSC, F, F), otherwise Ok having written every position
\* of the output.
C11_DenseRawErrors ==
    ret.tag = "dense_raw" =>
        IF ~ DenseShapesEqual(input.lhs, input.rhs, ret.out)
        THEN ret.val = Err("IncompatibleDimensions")
        ELSE IF ~ DenseTripleOk(input.lhs, input.rhs, ret.out)
        THEN ret.val = Err("IncompatibleStorages")
        ELSE /\ ret.val.tag = "Ok"
             /\ ret.written = DenseIndices(ret.out.rows, ret.out.cols)
             /\ \A q \in DenseIndices(ret.out.rows, ret.out.cols) :
                   ret.val.val.elems[q] \notin OutFills

\* A call on three equal non-empty shapes and an accepted triple, the sparse
\* operand storing something: Ok is returned.
C11_Witness ==
    /\ ret.tag = "dense_raw"
    /\ DenseShapesEqual(input.lhs, input.rhs, ret.out)
    /\ DenseTripleOk(input.lhs, input.rhs, ret.out)
    /\ ret.val.tag = "Ok"
    /\ input.lhs.nnz > 0
    /\ ret.out.rows > 1 /\ ret.out.cols > 1


\* ------------------------------------------------------------------ claims on SpecNew

\* The matrix the checked constructors build from their arguments before
\* they validate it.
InputMat ==
    CsMat(input.storage, input.nrows, input.ncols, Len(input.data),
          input.indptr, input.indices, input.data)

\* C12: checked construction of a matrix whose offsets end at a value
\* different from the number of stored entries (offsets of the right length,
\* as many indices as values) fails with BadNnzCount.
C12_BadNnzCount ==
    (/\ Constructed
     /\ IndptrLenOk(InputMat)
     /\ Len(input.indices) = Len(input.data)
     /\ input.indptr[Len(input.indptr)] # Len(input.data))
        => ret = Err("BadNnzCount")

\* The six structural rules with a designated error, numbered in the order
\* of their errors below; Broken(r, m) says that m violates rule r.
Broken(r, m) ==
    CASE r = 1 -> ~ IndptrLenOk(m)
      [] r = 2 -> Len(m.indices) # Len(m.data)
      [] r = 3 -> \E k \in 1..Len(m.indptr) : m.indptr[k] > Len(m.indices)
      [] r = 4 -> ~ IndptrSorted(m)
      [] r = 5 -> ~ IndicesInRange(m)
      [] r = 6 -> ~ SlicesSorted(m)

Designated ==
    <<"BadIndptrLength", "DataIndicesMismatch", "OutOfBoundsIndptr",
      "UnsortedIndptr", "OutOfBoundsIndex", "NonSortedIndices">>

BrokenRules(m) == {r \in 1..6 : Broken(r, m)}

\* C13: for an input that violates exactly one structural rule, new_borrowed
\* and new_owned return that rule's designated error.
C13_DesignatedError ==
    (Constructed /\ Cardinality(BrokenRules(InputMat)) = 1)
        => \E r \in BrokenRules(InputMat) : ret = Err(Designated[r])

\* Every stored index lies in an outer slice: the offsets start at 0 and
\* reach the number of stored indices.
SlicesCoverIndices(m) ==
    /\ Len(m.indptr) >= 1
    /\ m.indptr[1] = 0
    /\ \E k \in 1..Len(m.indptr) : m.indptr[k] >= Len(m.indices)

\* Both declared dimensions are below usize::MAX.
SmallDims == input.nrows + 1 < UsizeModulus /\ input.ncols + 1 < UsizeModulus

\* The statement of C13 on the inputs whose stored indices all lie in an
\* outer slice and whose declared dimensions are below usize::MAX.
C13_DesignatedErrorCovered ==
    (/\ Constructed
     /\ SmallDims
     /\ Broken(1, InputMat) \/ SlicesCoverIndices(InputMat))
        => C13_DesignatedError


\* ------------------------------------------------------------------ claims on Spec, operations on one matrix

\* C14: for any matrix A, add_mat_same_storage(A, scalar_mul_mat(A, -1)) has
\* nnz = 0: every offsets entry is 0 and the index and value arrays are
\* empty.
C14_AddNegatedIsEmpty ==
    (ret.tag = "add_scaled" /\ ret.scalar = -1) =>
        /\ ret.val.tag = "Ok"
        /\ ret.val.val.nnz = 0
        /\ ret.val.val.indptr = Zeros(outer_dims(input) + 1)
        /\ ret.val.val.indices = <<>>
        /\ ret.val.val.data = <<>>

\* The sum of a matrix that stores entries in two outer slices and of its
\* product by -1 has been computed.
C14_Witness ==
    /\ ret.tag = "add_scaled" /\ ret.scalar = -1
    /\ input.nnz >= 3
    /\ \E e1 \in Stored(input), e2 \in Stored(input) : e1[1] # e2[1]
    /\ ret.val.tag = "Ok"

\* A with every stored value multiplied by c and nothing else changed.
Scaled(A, c) == [A EXCEPT !.data = [k \in 1..Len(A.data) |-> A.data[k] * c]]

\* C16: scaling never changes structure: for any valid matrix A and any
\* scalar c, zero included, scalar_mul_mat(A, c) and the in-place A.scale(c)
\* both give a matrix with the dimensions, storage order, indptr, indices
\* and stored-entry count of A and data[k] = A.data[k] * c for every k.
C16_ScalingKeepsStructure ==
    /\ ret.tag = "scalar_mul_mat" => ret.val = Scaled(input, ret.scalar)
    /\ ret.tag = "scale" => mat = Scaled(input, ret.scalar)

\* A matrix with stored entries has been scaled in place by zero.
C16_Witness ==
    /\ ret.tag = "scale" /\ ret.scalar = 0
    /\ input.nnz >= 2
    /\ mat.nnz = input.nnz
    /\ \A k \in 1..Len(mat.data) : mat.data[k] = 0


\* ------------------------------------------------------------------ claims on the merge iterator

\* C15: merging two sparse vectors with sorted, duplicate-free indices
\* yields every index of the union of the two index sets exactly once, in
\* strictly increasing order, tagged Left with the left value when only the
\* left vector stores it, Right with the right value when only the right
\* one does, Both with both values when both do; each input entry is
\* consumed exactly once.
C15_MergeUnion ==
    ret.tag = "nnz_or_zip" =>
        LET out == ret.val
            L == Range(input.lhs.indices)
            R == Range(input.rhs.indices)
        IN  /\ \A k \in 1..(Len(out) - 1) : out[k].ind < out[k + 1].ind
            /\ {out[k].ind : k \in 1..Len(out)} = L \cup R
            /\ \A k \in 1..Len(out) :
                  CASE out[k].ind \in L \ R ->
                          /\ out[k].tag = "Left"
                          /\ out[k].lval = VecValAt(input.lhs, out[k].ind)
                    [] out[k].ind \in R \ L ->
                          /\ out[k].tag = "Right"
                          /\ out[k].rval = VecValAt(input.rhs, out[k].ind)
                    [] out[k].ind \in L \cap R ->
                          /\ out[k].tag = "Both"
                          /\ out[k].lval = VecValAt(input.lhs, out[k].ind)
                          /\ out[k].rval = VecValAt(input.rhs, out[k].ind)
                    [] OTHER -> FALSE
            /\ Cardinality({k \in 1..Len(out) : out[k].tag \in {"Left", "Both"}})
                  = Len(input.lhs.indices)
            /\ Cardinality({k \in 1..Len(out) : out[k].tag \in {"Right", "Both"}})
                  = Len(input.rhs.indices)

\* A merge that produced a left-only, a right-only or a both element with
\* different values on the two sides.
C15_Witness ==
    /\ ret.tag = "nnz_or_zip"
    /\ Len(ret.val) >= 2
    /\ \E k \in 1..Len(ret.val) :
          ret.val[k].tag = "Both" /\ ret.val[k].lval # ret.val[k].rval
    /\ \E k \in 1..Len(ret.val) : ret.val[k].tag # "Both"


\* A with rows and columns exchanged and the storage flipped, the arrays
\* and the count of stored entries being those of A.
Flipped(A) ==
    [A EXCEPT !.nrows = A.ncols, !.ncols = A.nrows,
              !.storage = other_storage(A.storage)]

\* at(j, i) of T is at(i, j) of A at every position of A.
AtSwapped(A, T) ==
    \A i \in 0..(A.nrows - 1), j \in 0..(A.ncols - 1) : at(T, j, i) = at(A, i, j)

\* C17: transpose_mut, transpose_into and transpose_view exchange the row
\* and column counts and flip the storage order while leaving indptr,
\* indices, data and nnz unchanged; afterwards at(j, i) is the former
\* at(i, j) at every position, and transposing twice restores the matrix.
C17_Transpose ==
    /\ (ret.tag = "transposed" /\ ret.n % 2 = 1) =>
           mat = Flipped(input) /\ AtSwapped(input, mat)
    /\ (ret.tag = "transposed" /\ ret.n % 2 = 0) => mat = input
    /\ (ret.tag = "transpose_view" /\ ret.n % 2 = 0) =>
           /\ mat = input
           /\ ret.val = Flipped(input) /\ AtSwapped(input, ret.val)
    /\ (ret.tag = "transpose_view" /\ ret.n % 2 = 1) =>
           mat = Flipped(input) /\ ret.val = input

\* A matrix that is not square and stores entries has been transposed once.
C17_Witness ==
    /\ ret.tag = "transposed" /\ ret.n = 1
    /\ input.nrows # input.ncols
    /\ input.nnz >= 2
    /\ mat.nrows = input.ncols

\* C18: append_outer(buf) appends exactly the non-zero entries of buf as
\* (position in buf, value) pairs in increasing position order, pushes one
\* new offsets entry equal to the new stored-entry count, increases the
\* outer dimension by one and leaves the inner dimension and every
\* previously stored offset, index and value unchanged.
C18_AppendOuter ==
    ret.tag = "append_outer" =>
        LET kept == SortedSeq({p \in 0..(Len(ret.data) - 1) : At(ret.data, p) # 0})
        IN  /\ mat.storage = input.storage
            /\ outer_dims(mat) = outer_dims(input) + 1
            /\ inner_dims(mat) = inner_dims(input)
            /\ mat.nnz = input.nnz + Len(kept)
            /\ mat.indptr = Append(input.indptr, input.nnz + Len(kept))
            /\ mat.indices = input.indices \o kept
            /\ mat.data = input.data \o [k \in 1..Len(kept) |-> At(ret.data, kept[k])]

\* A buffer with a zero before a non-zero has been appended to a matrix
\* that stores entries.
C18_Witness ==
    /\ ret.tag = "append_outer"
    /\ input.nnz >= 1
    /\ Len(ret.data) >= 2
    /\ ret.data[1] = 0 /\ ret.data[2] # 0
    /\ mat.nnz = input.nnz + 1


\* ------------------------------------------------------------------ claims on SpecOperators

\* The positions <<row, col>> a matrix stores.
RowColPositions(m) ==
    {IF m.storage = CSR THEN p ELSE <<p[2], p[1]>> : p \in Positions(m)}

\* C19: for two matrices a and b of equal dimensions, &a + &b and &a - &b
\* succeed for all four combinations of storage orders; when the orders
\* differ the result is the same-storage operation applied to a and
\* to_other_storage(b); the result has a's storage order and holds
\* a[i,j] + b[i,j] (resp. a[i,j] - b[i,j]) at every position where that
\* value is not zero, and stores nothing elsewhere.
C19_Operators ==
    (ret.tag = "operator" /\ SameShape(input.lhs, input.rhs)) =>
        LET a == input.lhs
            b == input.rhs
            Value(i, j) == Apply(ret.op, SparseElem(a, i, j), SparseElem(b, i, j))
        IN  /\ ret.val # Panic
            /\ ret.val.storage = a.storage
            /\ SameShape(ret.val, a)
            /\ a.storage # b.storage =>
                  ret.val = Unwrap(csmat_binop_same_storage_alloc(
                                       a, to_other_storage(b), ret.op))
            /\ RowColPositions(ret.val) =
                  {q \in DenseIndices(a.nrows, a.ncols) : Value(q[1], q[2]) # 0}
            /\ \A q \in RowColPositions(ret.val) :
                  SparseElem(ret.val, q[1], q[2]) = Value(q[1], q[2])
            /\ ret.val.nnz = Cardinality(RowColPositions(ret.val))

\* Two matrices of the same shape, wider than one row and one column, and
\* of different storages have been added or subtracted, and the value at a
\* position both store cancelled.
C19_Witness ==
    /\ ret.tag = "operator"
    /\ SameShape(input.lhs, input.rhs)
    /\ input.lhs.storage # input.rhs.storage
    /\ input.lhs.nrows > 1 /\ input.lhs.ncols > 1
    /\ RowColPositions(input.lhs) \cap RowColPositions(input.rhs) # {}
    /\ ret.val # Panic
    /\ ret.val.nnz < Cardinality(RowColPositions(input.lhs)
                                   \cup RowColPositions(input.rhs))


\* ------------------------------------------------------------------ claims on middle_outer_views

\* C20: for every pair of machine-word values (i, count),
\* middle_outer_views(i, count) returns Err(EmptyBlock) when count = 0,
\* otherwise Err(OutOfBoundsIndex) when i >= outer_dims() or
\* i + count > outer_dims(), and Ok only when 1 <= count and
\* i + count <= outer_dims(); it never panics and never returns a view that
\* reaches past the matrix's last outer slice.
C20_MiddleViewsErrors ==
    ret.tag = "middle_outer_views" =>
        IF ret.count = 0 THEN ret.val = Err("EmptyBlock")
        ELSE IF ret.i >= outer_dims(mat) \/ ret.i + ret.count > outer_dims(mat)
        THEN ret.val = Err("OutOfBoundsIndex")
        ELSE /\ ret.val.tag = "Ok"
             /\ ret.val.val.indptr = Slice(mat.indptr, ret.i, ret.i + ret.count + 1)

\* The statement of C20 on the pairs whose sum fits a machine word.
C20_MiddleViewsErrorsNoOverflow ==
    (ret.tag = "middle_outer_views" /\ ret.i + ret.count < UsizeModulus)
        => C20_MiddleViewsErrors


\* ------------------------------------------------------------------ claims on block iteration

\* C21, as claimed: block iteration requested with block size 0 fails with
\* EmptyBlock, when the iterator is made or at its first next().
C21_ZeroBlockFails ==
    (iter # None /\ iter.block_size = 0 /\ Len(iter.out) >= 1) =>
        \/ iter.it = Err("EmptyBlock")
        \/ iter.out[1] = Err("EmptyBlock")

\* C21, amended: outer_block_iter(0) returns an iterator, and every next()
\* on it returns None, whatever the matrix; nothing fails and nothing
\* panics.
C21_ZeroBlockYieldsNothing ==
    (iter # None /\ iter.block_size = 0) =>
        /\ iter.it.tag = "ChunkOuterBlocks"
        /\ \A j \in 1..Len(iter.out) : iter.out[j] = None

\* next() has been called twice on the iterator of block size 0 of a
\* matrix that has outer slices.
C21_Witness ==
    /\ iter # None /\ iter.block_size = 0
    /\ outer_dims(mat) >= 1
    /\ Len(iter.out) >= 2
    /\ iter.out[2] = None


\* ------------------------------------------------------------------ claims on is_symmetric

\* The stored entry at position p is off the diagonal, so that its mirror
\* entry is another stored entry, which the flip leaves alone.
OffDiagonal(m, p) == At(m.indices, p) # OuterOf(m, p)

\* C22, as claimed: on a matrix is_symmetric accepts, flipping the sign of one
\* stored value, its mirror entry left unchanged, makes is_symmetric false.
C22_FlipBreaksSymmetry ==
    (/\ ret.tag = "is_symmetric_flipped"
     /\ ret.before
     /\ OffDiagonal(mat, ret.p)) => ~ret.val

\* C22, amended: the same for a stored value that is not zero.
C22_FlipNonZeroBreaksSymmetry ==
    (/\ ret.tag = "is_symmetric_flipped"
     /\ ret.before
     /\ OffDiagonal(mat, ret.p)
     /\ At(mat.data, ret.p) # 0) => ~ret.val

\* A symmetric matrix with a diagonal entry and a non-zero pair off the
\* diagonal, one value of the pair flipped.
C22_Witness ==
    /\ ret.tag = "is_symmetric_flipped"
    /\ ret.before
    /\ mat.nnz >= 3
    /\ OffDiagonal(mat, ret.p)
    /\ At(mat.data, ret.p) # 0
    /\ ~ret.val


\* ------------------------------------------------------------------ claims on views

\* check_compressed_structure accepts the view; in particular its nnz is the
\* length of its index and value arrays and its offsets have one entry more
\* than it has outer slices.
ViewOk(v) ==
    /\ check_compressed_structure(to_owned(v)) = "Ok"
    /\ v.nnz = Len(v.indices) /\ v.nnz = Len(v.data)
    /\ Len(v.indptr) = outer_dims(v) + 1

\* The views of borrowed and transpose_view alone.
WholeViewsOk ==
    (mat # Panic /\ StructureOk(mat)) =>
        /\ ViewOk(borrowed(mat))
        /\ ret.tag = "transpose_view" => ViewOk(ret.val)

\* C23: every view derived from a matrix that satisfies the structural
\* invariants (borrowed, transpose_view, middle_outer_views, each block of
\* outer_block_iter) satisfies them too.
C23_ViewsValid ==
    (mat # Panic /\ StructureOk(mat)) =>
        /\ ViewOk(borrowed(mat))
        /\ ret.tag = "transpose_view" => ViewOk(ret.val)
        /\ (ret.tag = "middle_outer_views" /\ ret.val.tag = "Ok") => ViewOk(ret.val.val)
        /\ iter # None =>
              \A j \in 1..Len(iter.out) :
                  iter.out[j].tag = "Some" => ViewOk(iter.out[j].val)


\* ------------------------------------------------------------------ claims on the converter's assertions

\* C24: for every matrix accepted by the checked constructors,
\* to_other_storage runs to completion: no assertion of convert_mat_storage
\* fails, no scatter destination is outside the output arrays, and the
\* unwrap on new_owned does not fail.
C24_ConversionCompletes ==
    (Constructed /\ Len(hist) = 2 /\ hist[2] = "to_other_storage") =>
        mat # Panic

\* The same for the matrices that satisfy the structural invariants and
\* have dimensions below usize::MAX.
ValidConversionCompletes ==
    (Constructed /\ Len(hist) = 2 /\ hist[2] = "to_other_storage"
        /\ SmallDims /\ StructureOk(ret.val)) =>
            mat # Panic /\ StructureOk(mat)


\* ------------------------------------------------------------------ claims on csmat_binop_same_storage_raw

\* The matrix csmat_binop_same_storage_alloc builds from the arrays after
\* the raw call: the index and value arrays truncated to nnz.
Truncated(lhs, out) ==
    new_owned(lhs.storage, lhs.nrows, lhs.ncols, out.indptr,
              Slice(out.indices, 0, out.nnz), Slice(out.data, 0, out.nnz))

\* C25: for valid operands of equal dimensions and storage order,
\* csmat_binop_same_storage_raw returns nnz <= lhs.nb_nonzero() +
\* rhs.nb_nonzero(), writes only output positions below nnz, and leaves
\* out_indptr starting at 0, non-decreasing and ending at nnz, with strictly
\* increasing in-range indices in every output slice: the truncated result
\* passes structural validation.
C25_RawOutputValid ==
    (/\ ret.tag = "raw_binop"
     /\ SameShape(input.lhs, input.rhs)
     /\ input.lhs.storage = input.rhs.storage) =>
        /\ ret.val # Panic
        /\ LET out == ret.val.val
           IN  /\ out.nnz <= input.lhs.nnz + input.rhs.nnz
               /\ \A p \in (out.nnz + 1)..Len(out.indices) :
                      out.indices[p] = RawFill /\ out.data[p] = RawFill
               /\ \A p \in 1..out.nnz :
                      out.indices[p] # RawFill /\ out.data[p] # RawFill
               /\ out.indptr[1] = 0
               /\ \A k \in 1..(Len(out.indptr) - 1) : out.indptr[k] <= out.indptr[k + 1]
               /\ out.indptr[Len(out.indptr)] = out.nnz
               /\ Truncated(input.lhs, out).tag = "Ok"
               /\ StructureOk(Truncated(input.lhs, out).val)

\* Two operands with stored entries, one position in common whose values
\* cancel: the count returned is below the sum of the operands' counts and
\* above zero.
C25_Witness ==
    /\ ret.tag = "raw_binop" /\ ret.binop = "add"
    /\ SameShape(input.lhs, input.rhs)
    /\ input.lhs.storage = input.rhs.storage
    /\ input.lhs.nnz >= 1 /\ input.rhs.nnz >= 2
    /\ ret.val # Panic
    /\ ret.val.val.nnz >= 1
    /\ ret.val.val.nnz + 2 <= input.lhs.nnz + input.rhs.nnz


\* ------------------------------------------------------------------ claims on SpecBuild

\* Every append so far was given what the claim allows: a dense buffer of
\* length n, or a valid sparse vector of dimension n.
AllFit ==
    \A k \in 1..Len(hist) :
        IF hist[k].op = "append_outer" THEN Len(hist[k].arg) = input.n
        ELSE hist[k].arg.dim = input.n /\ check_structure(hist[k].arg) = "Ok"

\* C26: starting from empty(storage, n), after any sequence of append_outer
\* calls with dense buffers of length n and append_outer_csvec calls with
\* valid sparse vectors of dimension n, the matrix satisfies every structural
\* invariant, its inner dimension is n and its outer dimension is the number
\* of appends.
C26_BuildValid ==
    (input.kind = "build" /\ AllFit) =>
        /\ mat # Panic
        /\ StructureOk(mat)
        /\ check_compressed_structure(mat) = "Ok"
        /\ inner_dims(mat) = input.n
        /\ outer_dims(mat) = Len(hist)

\* One append of each kind has been made, each storing an entry.
C26_Witness ==
    /\ input.kind = "build" /\ AllFit
    /\ Len(hist) = 2
    /\ hist[1].op # hist[2].op
    /\ mat # Panic
    /\ mat.indptr[2] >= 1 /\ mat.indptr[3] > mat.indptr[2]


\* ------------------------------------------------------------------ claims on the output of a failed sparse-dense call

\* C27: when csmat_binop_dense_same_ordering_raw returns an error
\* (IncompatibleDimensions or IncompatibleStorages), the output the caller
\* supplied is left unchanged.
C27_ErrorLeavesOutput ==
    (ret.tag = "dense_raw" /\ ret.val.tag = "Err") =>
        /\ ret.val.err \in {"IncompatibleDimensions", "IncompatibleStorages"}
        /\ ret.out_after = ret.out

\* IncompatibleStorages was returned on three equal non-empty shapes, so
\* that the loop, had it run, would have written the output.
C27_Witness ==
    /\ ret.tag = "dense_raw"
    /\ ret.val = Err("IncompatibleStorages")
    /\ ret.out.rows >= 1 /\ ret.out.cols >= 1
    /\ input.lhs.nnz >= 1
    /\ ret.out_after = ret.out


\* ------------------------------------------------------------------ claims on the indices append_outer stores

\* C28: append_outer never stores an inner index that reaches or exceeds
\* inner_dims(): for a dense buffer of any length, every index it appends
\* is below the inner dimension of the matrix.
C28_AppendedIndicesInRange ==
    ret.tag = "append_outer" =>
        \A p \in (input.nnz + 1)..Len(mat.indices) :
            mat.indices[p] < inner_dims(mat)

\* The same for the buffers that are not longer than the inner dimension.
AppendedIndicesInRangeShort ==
    (ret.tag = "append_outer" /\ Len(ret.data) <= inner_dims(input)) =>
        \A p \in (input.nnz + 1)..Len(mat.indices) :
            mat.indices[p] < inner_dims(mat)


\* ------------------------------------------------------------------ claims on the totality of validation

\* C29: check_compressed_structure, and so new_owned and new_borrowed, is
\* total: for every storage order, declared rows and cols, and offsets,
\* index and value arrays of any lengths and contents, it returns Ok or a
\* typed error and never panics.
C29_ValidationTotal ==
    Constructed => ret.tag \in {"Ok", "Err"}

\* The same for declared dimensions below usize::MAX.
ValidationTotalSmall ==
    (Constructed /\ SmallDims) => ret.tag \in {"Ok", "Err"}


\* ------------------------------------------------------------------ claims on symmetry and conversion

\* C30: for every valid square matrix A, is_symmetric(A) is true if and only
\* if to_other_storage(A) has indptr, indices and data arrays identical to
\* A's; and is_symmetric gives the same answer on A, on transpose_view(A)
\* and on to_other_storage(A).
C30_SymmetricIffSameArrays ==
    (ret.tag = "is_symmetric_converted" /\ input.nrows = input.ncols) =>
        /\ ret.self <=> (/\ mat.indptr = input.indptr
                         /\ mat.indices = input.indices
                         /\ mat.data = input.data)
        /\ ret.view = ret.self
        /\ ret.other = ret.self

\* A symmetric matrix with entries off the diagonal has been converted, and
\* the three answers are true.
C30_Witness ==
    /\ ret.tag = "is_symmetric_converted"
    /\ input.nrows = input.ncols
    /\ ret.self /\ ret.view /\ ret.other
    /\ input.nnz >= 3
    /\ \E e \in Stored(input) : e[1] # e[2]
    /\ mat.indices = input.indices

====
